---- MODULE Spec2Model ----
(***************************************************************************)
(* A model of the message-ingestion server of hw-11 (server/src/main.rs)   *)
(* together with the wire format of hw-09 (common/src/lib.rs and the       *)
(* client's send_message).                                                 *)
(*                                                                         *)
(* Bytes are naturals 0..255, strings are sequences of their ASCII codes,  *)
(* paths are byte strings as the program builds them; the filesystem is    *)
(* keyed by the resolved path (components, ".." folded as the OS does).    *)
(***************************************************************************)
EXTENDS Integers, Sequences, FiniteSets, TLC

(***************************************************************************)
(* Bounds of the model.                                                    *)
(***************************************************************************)
\* connections the listener accepts in one run
MaxConns == 2
\* the last clock reading (seconds) the environment reaches
MaxClock == 2

(***************************************************************************)
(* Bytes and strings.                                                      *)
(***************************************************************************)
Ascii(ch) ==
    CASE ch = "." -> 46  [] ch = "/" -> 47  [] ch = "_" -> 95
      [] ch = "F" -> 70  [] ch = "I" -> 73  [] ch = "T" -> 84
      [] ch = "a" -> 97  [] ch = "b" -> 98  [] ch = "e" -> 101
      [] ch = "f" -> 102 [] ch = "g" -> 103 [] ch = "i" -> 105
      [] ch = "l" -> 108 [] ch = "m" -> 109 [] ch = "n" -> 110
      [] ch = "p" -> 112 [] ch = "s" -> 115 [] ch = "t" -> 116
      [] ch = "x" -> 120

Str(chars) == [i \in DOMAIN chars |-> Ascii(chars[i])]

RECURSIVE Digits(_)
\* the decimal rendering of n, as format!("{}", n) writes it
Digits(n) == IF n < 10 THEN <<48 + n>> ELSE Digits(n \div 10) \o <<48 + (n % 10)>>

RECURSIVE Concat(_)
Concat(seqs) == IF seqs = <<>> THEN <<>> ELSE Head(seqs) \o Concat(Tail(seqs))

IsPrefix(p, s) == Len(p) <= Len(s) /\ SubSeq(s, 1, Len(p)) = p

Drop(s, n) == SubSeq(s, n + 1, Len(s))

Take(s, n) == SubSeq(s, 1, n)

(***************************************************************************)
(* hw-09 common: the Message enum.                                         *)
(***************************************************************************)
File(name, data) == [tag |-> "File", name |-> name, data |-> data]
Image(name, data) == [tag |-> "Image", name |-> name, data |-> data]
Text(text) == [tag |-> "Text", name |-> text, data |-> <<>>]
NoMessage == [tag |-> "None", name |-> <<>>, data |-> <<>>]

(***************************************************************************)
(* serde_cbor as the program uses it: to_vec (enum as a one-entry map,     *)
(* a tuple variant as an array, Vec<u8> as an array of integers) and       *)
(* from_slice (the same shapes, and no byte may follow the value).         *)
(***************************************************************************)
\* a CBOR head: major type and argument (arguments below 2^16)
CborHead(major, n) ==
    IF n < 24 THEN <<major * 32 + n>>
    ELSE IF n < 256 THEN <<major * 32 + 24, n>>
    ELSE <<major * 32 + 25, n \div 256, n % 256>>

CborText(s) == CborHead(3, Len(s)) \o s

CborU8Seq(d) == CborHead(4, Len(d)) \o Concat([i \in DOMAIN d |-> CborHead(0, d[i])])

\* serde_cbor::to_vec(&message)
to_vec(m) ==
    CASE m.tag = "Text" -> CborHead(5, 1) \o CborText(Str(<<"T","e","x","t">>))
                             \o CborText(m.name)
      [] m.tag = "File" -> CborHead(5, 1) \o CborText(Str(<<"F","i","l","e">>))
                             \o CborHead(4, 2) \o CborText(m.name) \o CborU8Seq(m.data)
      [] m.tag = "Image" -> CborHead(5, 1) \o CborText(Str(<<"I","m","a","g","e">>))
                             \o CborHead(4, 2) \o CborText(m.name) \o CborU8Seq(m.data)

Fail == [ok |-> FALSE, major |-> 0, val |-> 0, seq |-> <<>>, rest |-> <<>>]

\* reads one head off b: its major type and argument
ParseHead(b) ==
    IF b = <<>> THEN Fail
    ELSE LET major == b[1] \div 32
             info == b[1] % 32
         IN IF info < 24
              THEN [ok |-> TRUE, major |-> major, val |-> info, seq |-> <<>>, rest |-> Tail(b)]
            ELSE IF info = 24 /\ Len(b) >= 2
              THEN [ok |-> TRUE, major |-> major, val |-> b[2], seq |-> <<>>, rest |-> Drop(b, 2)]
            ELSE IF info = 25 /\ Len(b) >= 3
              THEN [ok |-> TRUE, major |-> major, val |-> b[2] * 256 + b[3], seq |-> <<>>,
                    rest |-> Drop(b, 3)]
            ELSE Fail

\* a String: a definite-length text string
ParseText(b) ==
    LET h == ParseHead(b)
    IN IF h.ok /\ h.major = 3 /\ Len(h.rest) >= h.val
         THEN [ok |-> TRUE, major |-> 3, val |-> h.val, seq |-> Take(h.rest, h.val),
               rest |-> Drop(h.rest, h.val)]
       ELSE Fail

RECURSIVE ParseU8s(_, _, _)
\* n array elements, each an unsigned integer that fits a u8
ParseU8s(b, n, acc) ==
    IF n = 0 THEN [ok |-> TRUE, major |-> 4, val |-> Len(acc), seq |-> acc, rest |-> b]
    ELSE LET h == ParseHead(b)
         IN IF h.ok /\ h.major = 0 /\ h.val < 256
              THEN ParseU8s(h.rest, n - 1, Append(acc, h.val))
            ELSE Fail

\* a Vec<u8>: a definite-length array of integers
ParseU8Seq(b) ==
    LET h == ParseHead(b)
    IN IF h.ok /\ h.major = 4 THEN ParseU8s(h.rest, h.val, <<>>) ELSE Fail

DecodeErr == [ok |-> FALSE, msg |-> NoMessage]

\* serde_cbor::from_slice::<Message>(&buffer)
from_slice(buffer) ==
    LET m == ParseHead(buffer)
        k == ParseText(m.rest)
    IN IF ~(m.ok /\ m.major = 5 /\ m.val = 1 /\ k.ok) THEN DecodeErr
       ELSE IF k.seq = Str(<<"T","e","x","t">>)
         THEN LET t == ParseText(k.rest)
              IN IF t.ok /\ t.rest = <<>> THEN [ok |-> TRUE, msg |-> Text(t.seq)]
                 ELSE DecodeErr
       ELSE IF k.seq \in {Str(<<"F","i","l","e">>), Str(<<"I","m","a","g","e">>)}
         THEN LET a == ParseHead(k.rest)
                  n == ParseText(a.rest)
                  d == ParseU8Seq(n.rest)
              IN IF a.ok /\ a.major = 4 /\ a.val = 2 /\ n.ok /\ d.ok /\ d.rest = <<>>
                   THEN [ok |-> TRUE,
                         msg |-> IF k.seq = Str(<<"F","i","l","e">>)
                                   THEN File(n.seq, d.seq) ELSE Image(n.seq, d.seq)]
                 ELSE DecodeErr
       ELSE DecodeErr

(***************************************************************************)
(* The wire: the 4-byte big-endian length prefix.                          *)
(***************************************************************************)
\* the mutant of the prefix: the length written least significant byte first
to_le_bytes(n) ==
    <<n % 256, (n \div 256) % 256, (n \div 65536) % 256, (n \div 16777216) % 256>>

\* (n as u32).to_be_bytes(), for the lengths below 2^31 that the model's
\* integers hold (the cast is the identity there)
to_be_bytes(n) ==
    <<(n \div 16777216) % 256, (n \div 65536) % 256, (n \div 256) % 256, n % 256>>

\* u32::from_be_bytes(len_bytes) as usize, for prefixes below 2^31
from_be_bytes(b) == b[1] * 16777216 + b[2] * 65536 + b[3] * 256 + b[4]

\* the two writes of the client's send_message: the prefix, then the encoding
send_message(m) == <<to_be_bytes(Len(to_vec(m))), to_vec(m)>>

\* the mutant of the length check: the bound itself is refused
len_too_large_inclusive(len) == len >= 10 * 1024 * 1024

\* the length check of handle_client
len_too_large(len) == len > 10 * 1024 * 1024

(***************************************************************************)
(* Paths (std::path) and the filesystem.                                   *)
(***************************************************************************)
FILE_STORE == Str(<<"f","i","l","e","s","/">>)
IMAGE_STORE == Str(<<"i","m","a","g","e","s","/">>)

DotDot == Str(<<".", ".">>)

RECURSIVE Split(_, _)
\* the pieces of path between separators, cur being the piece under way
Split(path, cur) ==
    IF path = <<>> THEN <<cur>>
    ELSE IF Head(path) = Ascii("/") THEN <<cur>> \o Split(Tail(path), <<>>)
    ELSE Split(Tail(path), Append(cur, Head(path)))

\* Path::components: empty pieces and "." are skipped
Components(path) ==
    SelectSeq(Split(path, <<>>), LAMBDA p : p # <<>> /\ p # Str(<<".">>))

IsAbsolute(path) == path # <<>> /\ Head(path) = Ascii("/")

\* PathBuf::from(base).join(name)
join(base, name) ==
    IF IsAbsolute(name) THEN name
    ELSE IF base = <<>> \/ base[Len(base)] = Ascii("/") THEN base \o name
    ELSE base \o <<Ascii("/")>> \o name

None == [some |-> FALSE, v |-> <<>>]
Some(v) == [some |-> TRUE, v |-> v]

\* Path::file_name: the last component, unless it is ".."
file_name(path) ==
    LET cs == Components(path)
    IN IF cs = <<>> \/ cs[Len(cs)] = DotDot THEN None ELSE Some(cs[Len(cs)])

\* the positions of "." in a file name
DotsOf(file) == {i \in DOMAIN file : file[i] = Ascii(".")}

LastDot(file) == CHOOSE i \in DotsOf(file) : \A j \in DotsOf(file) : j <= i

\* rsplit_file_at_dot: (before, after) of the last dot
rsplit_file_at_dot(file) ==
    IF file = DotDot \/ DotsOf(file) = {} \/ LastDot(file) = 1
      THEN [before |-> Some(file), after |-> None]
    ELSE [before |-> Some(Take(file, LastDot(file) - 1)),
          after |-> Some(Drop(file, LastDot(file)))]

\* Path::file_stem
file_stem(path) ==
    IF file_name(path).some THEN rsplit_file_at_dot(file_name(path).v).before ELSE None

\* Path::extension
extension(path) ==
    IF file_name(path).some THEN rsplit_file_at_dot(file_name(path).v).after ELSE None

RECURSIVE JoinComponents(_)
JoinComponents(cs) ==
    IF cs = <<>> THEN <<>>
    ELSE IF Len(cs) = 1 THEN cs[1]
    ELSE cs[1] \o <<Ascii("/")>> \o JoinComponents(Tail(cs))

\* Path::with_file_name: the last component replaced (pushed, if there is none)
with_file_name(path, name) ==
    LET cs == Components(path)
        parent == IF file_name(path).some THEN Take(cs, Len(cs) - 1) ELSE cs
        root == IF IsAbsolute(path) THEN <<Ascii("/")>> ELSE <<>>
    IN root \o JoinComponents(Append(parent, name))

\* make_path_unique with the clock reading it takes; file_stem().unwrap()
\* panics when there is no file name, which the caller decides with CanUnique
make_path_unique(file_path, timestamp) ==
    LET new_filename ==
          IF extension(file_path).some
            THEN file_stem(file_path).v \o <<Ascii("_")>> \o Digits(timestamp)
                   \o <<Ascii(".")>> \o extension(file_path).v
          ELSE file_stem(file_path).v \o <<Ascii("_")>> \o Digits(timestamp)
    IN with_file_name(file_path, new_filename)

CanUnique(file_path) == file_stem(file_path).some

\* the mutant of the image path: the name alone, without the clock reading
png_path_plain(filename, timestamp) ==
    IMAGE_STORE \o filename \o Str(<<".","p","n","g">>)

\* format!("{}{}_{}.png", IMAGE_STORE, filename, timestamp)
png_path(filename, timestamp) ==
    IMAGE_STORE \o filename \o <<Ascii("_")>> \o Digits(timestamp)
      \o Str(<<".","p","n","g">>)

NoEntry == <<DotDot, DotDot>>

RECURSIVE Walk(_, _, _)
\* the OS resolving the components cs from directory cur: every directory
\* passed through must exist; NoEntry when one does not
Walk(cs, cur, ds) ==
    IF cs = <<>> THEN cur
    ELSE IF Head(cs) = DotDot
      THEN Walk(Tail(cs), IF cur = <<>> THEN <<>> ELSE Take(cur, Len(cur) - 1), ds)
    ELSE IF Len(cs) = 1 THEN Append(cur, Head(cs))
    ELSE IF Append(cur, Head(cs)) \in ds THEN Walk(Tail(cs), Append(cur, Head(cs)), ds)
    ELSE NoEntry

\* the file or directory a path names, as a sequence of components under the
\* working directory
Resolve(path, ds) == Walk(Components(path), <<>>, ds)

FilesDir == <<Str(<<"f","i","l","e","s">>)>>
ImagesDir == <<Str(<<"i","m","a","g","e","s">>)>>

\* the resolved paths that lie in a store directory
InStore(rp, dir) == Len(rp) > Len(dir) /\ Take(rp, Len(dir)) = dir

(***************************************************************************)
(* The image crate, as far as the server uses it: load_from_memory         *)
(* guesses the format from the leading magic and decodes the pixels,       *)
(* save_with_format writes them as a PNG.                                  *)
(***************************************************************************)
PngMagic == <<137>>
JpegMagic == <<255>>

load_from_memory(data) ==
    IF IsPrefix(PngMagic, data) THEN Some(Drop(data, Len(PngMagic)))
    ELSE IF IsPrefix(JpegMagic, data) THEN Some(Drop(data, Len(JpegMagic)))
    ELSE None

png_encode(pixels) == PngMagic \o pixels

(***************************************************************************)
(* The filesystem: a set of files, each a resolved path with its content,  *)
(* and the set of directories under the working directory.                 *)
(***************************************************************************)
Paths(f) == {e.path : e \in f}

Content(f, rp) == (CHOOSE e \in f : e.path = rp).content

\* the mutant of the write: the file is opened without truncation, and what an
\* earlier, longer content had behind the new bytes stays
Put_no_truncate(f, rp, d) ==
    LET old == IF rp \in Paths(f) THEN Content(f, rp) ELSE <<>>
    IN {e \in f : e.path # rp}
         \cup {[path |-> rp, content |-> d \o Drop(old, Len(d))]}

\* creating or truncating the file at rp and writing d
Put(f, rp, d) == {e \in f : e.path # rp} \cup {[path |-> rp, content |-> d]}

\* the files of a store directory
Store(f, dir) == {e \in f : InStore(e.path, dir)}

\* the mutant of the existence check: the candidate is never found
metadata_never_ok(path, f, ds) == FALSE

\* fs::metadata(&path).await.is_ok(): a file or a directory is there
metadata_is_ok(path, f, ds) ==
    LET rp == Resolve(path, ds)
    IN rp # NoEntry /\ (rp \in Paths(f) \/ rp \in ds \/ rp = <<>>)

\* File::create succeeds at path: its directory is there and it is no directory
CanCreate(path, ds) ==
    LET rp == Resolve(path, ds)
    IN /\ rp # NoEntry /\ rp # <<>> /\ rp \notin ds
       /\ (Len(rp) = 1 \/ Take(rp, Len(rp) - 1) \in ds)

(***************************************************************************)
(* The clients of the model: what one connection writes, as the sequence   *)
(* of its writes.                                                          *)
(***************************************************************************)
NameA == Str(<<"a", ".", "t">>)
NameUp == Str(<<".", ".", "/", "x">>)
NameImg == Str(<<"a">>)

Msgs ==
    { File(NameA, <<>>), File(NameUp, <<1>>),
      Image(NameImg, <<137, 7>>), Image(NameImg, <<1>>), Text(Str(<<"a">>)) }

\* a valid prefix and a payload that is no Message
Garbage == <<to_be_bytes(2), <<1, 2>>>>
\* a prefix one above the maximum, and payload bytes behind it
Oversized == <<to_be_bytes(10 * 1024 * 1024 + 1), <<1, 2>>>>
\* a prefix of exactly the maximum (the model's client never delivers that much)
ExactMax == <<to_be_bytes(10 * 1024 * 1024), <<1, 2>>>>
\* two frames written on one connection, the second in one write with the
\* payload of the first
TwoFrames ==
    LET f == send_message(File(NameA, <<1>>))
        g == send_message(File(NameA, <<>>))
    IN <<f[1], f[2] \o g[1] \o g[2]>>

Scripts == {send_message(m) : m \in Msgs} \cup {Garbage, Oversized, ExactMax, TwoFrames}

\* the messages of the wire specification: every variant, with empty and
\* non-empty names, texts and payloads, bytes on both sides of the one-byte
\* integers, and lengths on both sides of each form of the CBOR head
WireData == {<<>>, <<0>>, <<23, 24, 255>>, [i \in 1..24 |-> i]}
WireText == {<<>>, Str(<<"a">>), [i \in 1..30 |-> Ascii("a")], [i \in 1..300 |-> Ascii("t")]}
WireMsgs ==
    {File(n, d) : n \in {<<>>, NameA}, d \in WireData}
      \cup {Image(n, d) : n \in {<<>>, NameImg}, d \in WireData}
      \cup {Text(t) : t \in WireText}

(***************************************************************************)
(* State.                                                                  *)
(***************************************************************************)
VARIABLES
    server,         \* start_server: "binding", "accepting", "waiting", "stopped", "panicked"
    shutdown_sent,  \* shutdown_sender.send(()) has run
    main_pc,        \* main: "select" or "exited" (the process has ended)
    now,            \* SystemTime::now() in seconds
    socket,         \* per connection: the client's writes to come, the bytes received
                    \* and not yet read, and whether the client's end is closed
    task,           \* per connection: the handler task running handle_client
    fs,             \* the files on disk
    dirs,           \* the directories on disk
    call,           \* hw-07: the function called, with its arguments
    ret,            \* hw-07: what the call returned
    stdin,          \* hw-07: what is left to read on the process's standard input
    input_source,   \* hw-07: what is left to read in the reader passed to the call
    env_args,       \* hw-07 main: std::env::args()
    producer,       \* hw-07 main: the producer thread: where it is ("loop",
                    \* "get_csv_subcommand", "read_input", "wait_done", "exited")
                    \* and the command it has read
    consumer,       \* hw-07 main: the consumer thread: where it is ("recv", "execute",
                    \* "exited", "panicked") and the command it holds
    data_channel,   \* hw-07 main: the commands sent on tx and not yet received
    done_channel,   \* hw-07 main: the signals sent on done_tx and not yet received
    entered,        \* hw-07 main: the commands the producer has sent, in order
    executed,       \* hw-07 main: the commands execute_command has run, in order
    cli_main,       \* hw-07 main: "join_producer", "join_consumer", "returned", "panicked"
    hw03,           \* hw-03 read_input: where it is ("none", "loop", "returned"), its
                    \* counter and its buffer
    sending          \* hw-09 client, send_message on a message of any size: where it
                    \* is, the message, the length of its encoding, the prefix
                    \* written and the number of payload bytes written

\* the threads of hw-07's main and what they share
threadVars == <<env_args, producer, consumer, data_channel, done_channel, entered, executed,
                cli_main, hw03, sending>>

vars == <<server, shutdown_sent, main_pc, now, socket, task, fs, dirs,
          call, ret, stdin, input_source,
          env_args, producer, consumer, data_channel, done_channel, entered, executed, cli_main,
          hw03, sending>>

\* the state of the hw-07 program, which the server never touches
cliVars == <<call, ret, stdin, input_source, threadVars>>

\* hw-07's main has not been started
NoThreads ==
    /\ env_args = <<>>
    /\ producer = [pc |-> "none"]
    /\ consumer = [pc |-> "none"]
    /\ data_channel = <<>> /\ done_channel = <<>>
    /\ entered = <<>> /\ executed = <<>>
    /\ cli_main = "none"
    /\ hw03 = [pc |-> "none", counter |-> 0, input |-> <<>>]
    /\ sending = [pc |-> "none"]

\* no call of hw-07 made, and nothing returned
NoCall == [fn |-> "none", args |-> <<>>, mode |-> "none", source |-> <<>>, text |-> <<>>]
NoRet == [ok |-> FALSE, v |-> "none"]

Conns == 1..MaxConns

NoSocket == [pending |-> <<>>, rx |-> <<>>, eof |-> FALSE]

\* a task not yet spawned; len and alloc are -1 until the prefix is read and the
\* buffer allocated; started and ended are the clock readings at the put's first
\* and last output (its log lines, or the panic message); worker is the closure
\* of save_as_png: "none" before it is spawned, "blocking" while it runs on the
\* blocking pool ("inline" were it run inside the handler's poll), and its
\* return value once it has returned
IdleTask ==
    [pc |-> "idle", nread |-> 0, len |-> -1, alloc |-> -1, buffer |-> <<>>,
     message |-> NoMessage, file_path |-> <<>>, result |-> "none",
     started |-> 0, ended |-> 0, worker |-> "none"]

\* the server before start_server runs, in an empty working directory
ServerInit ==
    /\ server = "binding"
    /\ shutdown_sent = FALSE
    /\ main_pc = "select"
    /\ now = 1
    /\ socket = [c \in Conns |-> NoSocket]
    /\ task = [c \in Conns |-> IdleTask]
    /\ fs = {}
    /\ dirs = {}

Init ==
    /\ ServerInit
    /\ call = NoCall /\ ret = NoRet /\ stdin = <<>> /\ input_source = <<>>
    /\ NoThreads

\* the process is running: the runtime polls its tasks
Alive == main_pc = "select"

ServerDone == server \in {"stopped", "panicked"}

\* the scheduler threads of the runtime that #[tokio::main] builds: one per
\* core, a single one on the smallest machine
worker_threads == 1

\* the handlers that hold a scheduler thread from one step to the next: those
\* computing inside their poll
OnScheduler == {c \in Conns : task[c].worker = "inline"}

\* the runtime can poll a task: the process runs and a scheduler thread is free
Polled == Alive /\ Cardinality(OnScheduler) < worker_threads

(***************************************************************************)
(* main and start_server.                                                  *)
(***************************************************************************)
\* TcpListener::bind(..).await.expect(..)
bind ==
    /\ Polled /\ server = "binding"
    /\ server' \in {"accepting", "panicked"}
    /\ UNCHANGED <<shutdown_sent, main_pc, now, socket, task, fs, dirs>>
    /\ UNCHANGED cliVars

\* the mutant of the accept branch: the listener goes on accepting after the break
accept_after_stop(c, script) ==
    /\ Polled /\ server \in {"accepting", "stopped"}
    /\ task[c].pc = "idle"
    /\ \A d \in Conns : d < c => task[d].pc # "idle"
    /\ socket' = [socket EXCEPT ![c] = [pending |-> script, rx |-> <<>>, eof |-> FALSE]]
    /\ task' = [task EXCEPT ![c].pc = "read_len"]
    /\ UNCHANGED <<server, shutdown_sent, main_pc, now, fs, dirs>>
    /\ UNCHANGED cliVars

\* the accept branch of the select: the next connection is accepted and its
\* handler spawned
accept(c, script) ==
    /\ Polled /\ server = "accepting"
    /\ task[c].pc = "idle"
    /\ \A d \in Conns : d < c => task[d].pc # "idle"
    /\ socket' = [socket EXCEPT ![c] = [pending |-> script, rx |-> <<>>, eof |-> FALSE]]
    /\ task' = [task EXCEPT ![c].pc = "read_len"]
    /\ UNCHANGED <<server, shutdown_sent, main_pc, now, fs, dirs>>
    /\ UNCHANGED cliVars

\* listener.accept() returns Err: the pattern Ok(..) fails, the select disables
\* that branch and waits on the shutdown branch alone
accept_err ==
    /\ Polled /\ server = "accepting"
    /\ server' = "waiting"
    /\ UNCHANGED <<shutdown_sent, main_pc, now, socket, task, fs, dirs>>
    /\ UNCHANGED cliVars

\* the shutdown branch of the select: break
recv_shutdown ==
    /\ Polled /\ server \in {"accepting", "waiting"}
    /\ shutdown_sent
    /\ server' = "stopped"
    /\ UNCHANGED <<shutdown_sent, main_pc, now, socket, task, fs, dirs>>
    /\ UNCHANGED cliVars

\* the operator's interrupt: ctrl_c() completes and the signal is broadcast
ctrl_c ==
    /\ Alive /\ ~shutdown_sent /\ ~ServerDone
    /\ shutdown_sent' = TRUE
    /\ UNCHANGED <<server, main_pc, now, socket, task, fs, dirs>>
    /\ UNCHANGED cliVars

\* the mutant of main's return: main first waits for every handler to end
main_return_awaits_handlers ==
    /\ Alive /\ (shutdown_sent \/ ServerDone)
    /\ \A c \in Conns : task[c].pc \in {"idle", "done"}
    /\ main_pc' = "exited"
    /\ UNCHANGED <<server, shutdown_sent, now, socket, task, fs, dirs>>
    /\ UNCHANGED cliVars

\* main's select completes (the server task ended, or the interrupt came) and
\* main returns: the runtime is dropped and no task is polled again
main_return ==
    /\ Alive /\ (shutdown_sent \/ ServerDone)
    /\ main_pc' = "exited"
    /\ UNCHANGED <<server, shutdown_sent, now, socket, task, fs, dirs>>
    /\ UNCHANGED cliVars

(***************************************************************************)
(* The environment: the clients and the clock.                             *)
(***************************************************************************)
\* the handler still reads from the connection: what the client does after the
\* handler's last read is not followed
Open(c) == task[c].pc \in {"read_len", "read_payload"}

\* the client's next write arrives
client_send(c) ==
    /\ Alive /\ Open(c) /\ ~socket[c].eof /\ socket[c].pending # <<>>
    /\ socket' = [socket EXCEPT ![c].rx = @ \o Head(socket[c].pending),
                                ![c].pending = Tail(@)]
    /\ UNCHANGED <<server, shutdown_sent, main_pc, now, task, fs, dirs>>
    /\ UNCHANGED cliVars

\* the bytes the handler's pending read_exact still waits for
Missing(c) ==
    IF task[c].pc = "read_len" THEN Len(socket[c].rx) < 4
    ELSE Len(socket[c].rx) < task[c].len

\* the client closes its end (or dies) before the handler has all it reads; a
\* close behind a complete delivery changes nothing the handler sees
client_close(c) ==
    /\ Alive /\ Open(c) /\ ~socket[c].eof
    /\ socket[c].pending # <<>> \/ Missing(c)
    /\ socket' = [socket EXCEPT ![c].eof = TRUE]
    /\ UNCHANGED <<server, shutdown_sent, main_pc, now, task, fs, dirs>>
    /\ UNCHANGED cliVars

tick ==
    /\ Alive /\ now < MaxClock
    /\ now' = now + 1
    /\ UNCHANGED <<server, shutdown_sent, main_pc, socket, task, fs, dirs>>
    /\ UNCHANGED cliVars

(***************************************************************************)
(* handle_client.  One action runs the handler from one await to the       *)
(* next.  read_exact is taken as one step: it returns once the bytes it    *)
(* asks for have arrived, and fails once the stream has ended short of     *)
(* them (the bytes it took until then are gone with it).                   *)
(***************************************************************************)
\* the mutant of the handler's end: it reads on, as a session loop would
terminate_loops(t, result) ==
    [t EXCEPT !.pc = "read_len", !.result = result]

\* the handler returns: the task ends and the socket is dropped
terminate(t, result) ==
    [t EXCEPT !.pc = "done", !.result = result]

\* process_message, up to the first await of the put it calls
process_message(t, clock) ==
    CASE t.message.tag = "File" -> [t EXCEPT !.pc = "create_dir", !.started = clock]
      [] t.message.tag = "Image" -> [t EXCEPT !.pc = "img_create_dir", !.started = clock]
      [] t.message.tag = "Text" -> terminate(t, "Text")

\* the mutant of the failed length read: no return, the zeroed len_bytes are used
len_read_failed_goes_on(t) ==
    [t EXCEPT !.len = 0, !.alloc = 0, !.pc = "read_payload"]

\* read_exact(&mut len_bytes) failed: log and return
len_read_failed(t) == terminate(t, "LenReadError")

\* read_exact(&mut buffer) failed: log and fall out of the match
payload_read_failed(t) == terminate(t, "ReadError")

\* the mutant of the decode failure: the listener's task takes the error
decode_failed_stops_server(c, t) ==
    /\ task' = [task EXCEPT ![c] = terminate(t, "DeserializationError")]
    /\ server' = "panicked"
    /\ UNCHANGED <<main_pc, fs, dirs>>

\* the mutant of the decode failure: the raw bytes are kept as a file
decode_failed_keeps_raw(c, t) ==
    /\ task' = [task EXCEPT ![c] = terminate(t, "DeserializationError")]
    /\ fs' = Put(fs, <<Str(<<"f","i","l","e","s">>), Str(<<"a">>)>>, t.buffer)
    /\ UNCHANGED <<server, main_pc, dirs>>

\* from_slice returned Err: log the error and the raw bytes, and return
decode_failed(c, t) ==
    /\ task' = [task EXCEPT ![c] = terminate(t, "DeserializationError")]
    /\ UNCHANGED <<server, main_pc, fs, dirs>>

\* the socket after a read that takes n bytes: the client's later writes are
\* followed only while the handler will read again
AfterRead(sock, n, reads_on) ==
    IF reads_on THEN [sock EXCEPT !.rx = Drop(sock.rx, n)]
    ELSE [pending |-> <<>>, rx |-> Drop(sock.rx, n), eof |-> FALSE]

\* the mutant of read_exact: a read that finds bytes missing gives up at once,
\* as under a deadline
read_exact_gives_up(sock) == TRUE

\* read_exact fails short of its bytes only when the stream has ended: there is
\* no deadline on it
read_exact_fails(sock) == sock.eof

\* the first read_exact, the length check and the allocation of the buffer
handle_client_read_len(c) ==
    /\ Polled /\ task[c].pc = "read_len"
    /\ LET rx == socket[c].rx
       IN IF Len(rx) >= 4
            THEN LET len == from_be_bytes(Take(rx, 4))
                     t == [task[c] EXCEPT !.nread = @ + 4, !.len = len]
                 IN /\ socket' = [socket EXCEPT ![c] = AfterRead(@, 4, ~len_too_large(len))]
                    /\ task' = [task EXCEPT ![c] =
                                  IF len_too_large(len) THEN terminate(t, "TooLarge")
                                  ELSE [t EXCEPT !.alloc = len, !.pc = "read_payload"]]
          ELSE /\ read_exact_fails(socket[c])
               /\ socket' = [socket EXCEPT ![c] = AfterRead(@, Len(rx), FALSE)]
               /\ task' = [task EXCEPT ![c] =
                             len_read_failed([task[c] EXCEPT !.nread = @ + Len(rx)])]
    /\ UNCHANGED <<server, shutdown_sent, main_pc, now, fs, dirs>>
    /\ UNCHANGED cliVars

\* the second read_exact, from_slice and process_message
handle_client_read_payload(c) ==
    /\ Polled /\ task[c].pc = "read_payload"
    /\ LET rx == socket[c].rx
           len == task[c].len
       IN IF Len(rx) >= len
            THEN LET t == [task[c] EXCEPT !.nread = @ + len, !.buffer = Take(rx, len)]
                     r == from_slice(t.buffer)
                 IN /\ socket' = [socket EXCEPT ![c] = AfterRead(@, len, FALSE)]
                    /\ IF r.ok
                         THEN /\ task' = [task EXCEPT ![c] =
                                            process_message([t EXCEPT !.message = r.msg], now)]
                              /\ UNCHANGED <<server, main_pc, fs, dirs>>
                       ELSE decode_failed(c, t)
          ELSE /\ read_exact_fails(socket[c])
               /\ socket' = [socket EXCEPT ![c] = AfterRead(@, Len(rx), FALSE)]
               /\ task' = [task EXCEPT ![c] =
                             payload_read_failed(
                               [task[c] EXCEPT !.nread = @ + Len(rx), !.buffer = rx])]
               /\ UNCHANGED <<server, main_pc, fs, dirs>>
    /\ UNCHANGED <<shutdown_sent, now>>
    /\ UNCHANGED cliVars

(***************************************************************************)
(* save_file and make_path_unique.                                         *)
(***************************************************************************)
\* the mutant of a failed expect: the panic takes the process down
storage_panic_aborts(c) ==
    /\ task' = [task EXCEPT ![c] = terminate([task[c] EXCEPT !.ended = now], "Panicked")]
    /\ main_pc' = "exited"
    /\ UNCHANGED server

\* an expect fails in save_file: the task panics, and the runtime ends that task
storage_panic(c) ==
    /\ task' = [task EXCEPT ![c] = terminate([task[c] EXCEPT !.ended = now], "Panicked")]
    /\ UNCHANGED <<server, main_pc>>

\* create_dir_all(FILE_STORE).await.expect(..), then the candidate path
save_file_create_dir(c) ==
    /\ Polled /\ task[c].pc = "create_dir"
    /\ \/ /\ dirs' = dirs \cup {FilesDir}
          /\ task' = [task EXCEPT ![c].pc = "metadata",
                                  ![c].file_path = join(FILE_STORE, task[c].message.name)]
          /\ UNCHANGED <<server, main_pc>>
       \/ /\ storage_panic(c)
          /\ UNCHANGED dirs
    /\ UNCHANGED <<shutdown_sent, now, socket, fs>>
    /\ UNCHANGED cliVars

\* the mutant of the existence check: the alternate is checked in its turn, and
\* suffixed again when it is there
save_file_metadata_rechecks(c) ==
    /\ Polled /\ task[c].pc = "metadata"
    /\ IF metadata_is_ok(task[c].file_path, fs, dirs)
         THEN IF CanUnique(task[c].file_path)
                THEN LET alt == make_path_unique(task[c].file_path, now)
                     IN /\ task' = [task EXCEPT ![c].pc = "write",
                                       ![c].file_path =
                                          IF metadata_is_ok(alt, fs, dirs)
                                            THEN make_path_unique(alt, now) ELSE alt]
                        /\ UNCHANGED <<server, main_pc>>
              ELSE storage_panic(c)
       ELSE /\ task' = [task EXCEPT ![c].pc = "write"]
            /\ UNCHANGED <<server, main_pc>>
    /\ UNCHANGED <<shutdown_sent, now, socket, fs, dirs>>
    /\ UNCHANGED cliVars

\* the existence check, and make_path_unique when the candidate is there
save_file_metadata(c) ==
    /\ Polled /\ task[c].pc = "metadata"
    /\ IF metadata_is_ok(task[c].file_path, fs, dirs)
         THEN IF CanUnique(task[c].file_path)
                THEN /\ task' = [task EXCEPT ![c].pc = "write",
                                   ![c].file_path = make_path_unique(task[c].file_path, now)]
                     /\ UNCHANGED <<server, main_pc>>
              ELSE storage_panic(c)
       ELSE /\ task' = [task EXCEPT ![c].pc = "write"]
            /\ UNCHANGED <<server, main_pc>>
    /\ UNCHANGED <<shutdown_sent, now, socket, fs, dirs>>
    /\ UNCHANGED cliVars

\* the mutant of the write: one byte short
written_short(data) == IF data = <<>> THEN <<>> ELSE Take(data, Len(data) - 1)

\* what a complete write leaves in the file
written(data) == data

\* tokio::fs::write(&file_path, data).await.expect(..): the file is created or
\* truncated and the bytes written; a failure leaves what had been written
save_file_write(c) ==
    /\ Polled /\ task[c].pc = "write"
    /\ LET rp == Resolve(task[c].file_path, dirs)
           data == task[c].message.data
       IN \/ /\ CanCreate(task[c].file_path, dirs)
             /\ fs' = Put(fs, rp, written(data))
             /\ task' = [task EXCEPT ![c] =
                           terminate([task[c] EXCEPT !.ended = now], "Saved")]
             /\ UNCHANGED <<server, main_pc>>
          \/ /\ CanCreate(task[c].file_path, dirs)
             /\ \E k \in 0..(Len(data) - 1) : fs' = Put(fs, rp, Take(data, k))
             /\ storage_panic(c)
          \/ /\ UNCHANGED fs
             /\ storage_panic(c)
    /\ UNCHANGED <<shutdown_sent, now, socket, dirs>>
    /\ UNCHANGED cliVars

(***************************************************************************)
(* save_image and save_as_png.                                             *)
(***************************************************************************)
\* create_dir_all(IMAGE_STORE): an error is logged and save_image returns
save_image_create_dir(c) ==
    /\ Polled /\ task[c].pc = "img_create_dir"
    /\ \/ /\ dirs' = dirs \cup {ImagesDir}
          /\ task' = [task EXCEPT ![c].pc = "img_blocking"]
       \/ /\ UNCHANGED dirs
          /\ task' = [task EXCEPT ![c] = terminate(task[c], "ImageDirError")]
    /\ UNCHANGED <<server, shutdown_sent, main_pc, now, socket, fs>>
    /\ UNCHANGED cliVars

\* the mutant of spawn_blocking: the closure is called inside the handler's poll
spawn_inline(t) == [t EXCEPT !.pc = "img_join", !.worker = "inline"]

\* tokio::task::spawn_blocking(closure): the closure goes to the blocking pool
\* and the handler awaits its JoinHandle
spawn_blocking(t) == [t EXCEPT !.pc = "img_join", !.worker = "blocking"]

\* save_as_png up to its await: the data and the name are copied and the closure
\* is spawned
save_as_png(c) ==
    /\ Polled /\ task[c].pc = "img_blocking"
    /\ task' = [task EXCEPT ![c] = spawn_blocking(task[c])]
    /\ UNCHANGED <<server, shutdown_sent, main_pc, now, socket, fs, dirs>>
    /\ UNCHANGED cliVars

\* the closure of save_as_png on its thread: decode, read the clock, create the
\* file and write the PNG.  A closure that has started is not cancelled when
\* main returns: the runtime waits for it.
blocking_closure(c) ==
    /\ task[c].worker \in {"blocking", "inline"}
    /\ LET img == load_from_memory(task[c].message.data)
           path == png_path(task[c].message.name, now)
           rp == Resolve(path, dirs)
       IN IF ~img.some
            THEN /\ task' = [task EXCEPT ![c].worker = "ImageError"]
                 /\ UNCHANGED fs
          ELSE \/ /\ CanCreate(path, dirs)
                  /\ fs' = Put(fs, rp, png_encode(img.v))
                  /\ task' = [task EXCEPT ![c].worker = "ImageSaved",
                                          ![c].file_path = path, ![c].ended = now]
               \/ /\ CanCreate(path, dirs)
                  /\ fs' = Put(fs, rp, <<>>)
                  /\ task' = [task EXCEPT ![c].worker = "ImageError", ![c].file_path = path]
               \/ /\ UNCHANGED fs
                  /\ task' = [task EXCEPT ![c].worker = "ImageError", ![c].file_path = path]
    /\ UNCHANGED <<server, shutdown_sent, main_pc, now, socket, dirs>>
    /\ UNCHANGED cliVars

\* the handler resumes with the closure's result: save_as_png returns it and
\* save_image logs the outcome
save_image_result(c) ==
    /\ Polled /\ task[c].pc = "img_join"
    /\ task[c].worker \in {"ImageSaved", "ImageError"}
    /\ task' = [task EXCEPT ![c] = terminate(task[c], task[c].worker)]
    /\ UNCHANGED <<server, shutdown_sent, main_pc, now, socket, fs, dirs>>
    /\ UNCHANGED cliVars

(***************************************************************************)
(* The file store on its own: a server that starts on a disk where earlier *)
(* runs have left files, and clients that send File messages.              *)
(***************************************************************************)
NameNoExt == Str(<<"a">>)
NameEmpty == <<>>
\* the name make_path_unique gives a.t in second 1
NameAlt == Str(<<"a", "_">>) \o Digits(1) \o Str(<<".", "t">>)

StoreMsgs ==
    { File(NameA, <<1>>), File(NameNoExt, <<1>>), File(NameEmpty, <<1>>),
      File(NameAlt, <<2>>) }

Left(name) == [path |-> FilesDir \o <<name>>, content |-> <<9>>]

\* what earlier runs may have left in files/
InitialStores ==
    { {}, {Left(NameA)}, {Left(NameA), Left(NameAlt), Left(NameNoExt)} }

InitStore ==
    /\ server = "binding"
    /\ shutdown_sent = FALSE
    /\ main_pc = "select"
    /\ now = 1
    /\ socket = [c \in Conns |-> NoSocket]
    /\ task = [c \in Conns |-> IdleTask]
    /\ fs \in InitialStores
    /\ dirs = IF fs = {} THEN {} ELSE {FilesDir}
    /\ call = NoCall /\ ret = NoRet /\ stdin = <<>> /\ input_source = <<>>
    /\ NoThreads

NextStore ==
    \/ bind
    \/ \E c \in Conns : \E m \in StoreMsgs : accept(c, send_message(m))
    \/ \E c \in Conns : client_send(c)
    \/ tick
    \/ \E c \in Conns : handle_client_read_len(c)
    \/ \E c \in Conns : handle_client_read_payload(c)
    \/ \E c \in Conns : save_file_create_dir(c)
    \/ \E c \in Conns : save_file_metadata(c)
    \/ \E c \in Conns : save_file_write(c)

SpecStore == InitStore /\ [][NextStore]_vars

(***************************************************************************)
(* The specification.                                                      *)
(***************************************************************************)
Next ==
    \/ bind
    \/ \E c \in Conns : \E script \in Scripts : accept(c, script)
    \/ accept_err
    \/ recv_shutdown
    \/ ctrl_c
    \/ main_return
    \/ \E c \in Conns : client_send(c)
    \/ \E c \in Conns : client_close(c)
    \/ tick
    \/ \E c \in Conns : handle_client_read_len(c)
    \/ \E c \in Conns : handle_client_read_payload(c)
    \/ \E c \in Conns : save_file_create_dir(c)
    \/ \E c \in Conns : save_file_metadata(c)
    \/ \E c \in Conns : save_file_write(c)
    \/ \E c \in Conns : save_image_create_dir(c)
    \/ \E c \in Conns : save_as_png(c)
    \/ \E c \in Conns : blocking_closure(c)
    \/ \E c \in Conns : save_image_result(c)

Spec == Init /\ [][Next]_vars

\* the server under fair scheduling of main: main's select is polled whenever
\* one of its branches is ready, and its branches wait for no handler
SpecFair == Init /\ [][Next]_vars /\ WF_vars(main_return)

\* the wire alone: clients that send one frame of send_message each, and the
\* handlers up to process_message
NextWire ==
    \/ bind
    \/ \E c \in Conns : \E m \in WireMsgs : accept(c, send_message(m))
    \/ \E c \in Conns : client_send(c)
    \/ \E c \in Conns : handle_client_read_len(c)
    \/ \E c \in Conns : handle_client_read_payload(c)

SpecWire == Init /\ [][NextWire]_vars

(***************************************************************************)
(* hw-07: the command line of the text transmuter (input.rs, command.rs)   *)
(* and short_slugify (text_utils.rs).  Strings are sequences of            *)
(* characters; a reader is the sequence of characters left to read.        *)
(***************************************************************************)
Ok(v) == [ok |-> TRUE, v |-> v]
Err(e) == [ok |-> FALSE, v |-> e]

\* the variants of Command
Commands ==
    {"Lowercase", "Uppercase", "NoSpaces", "Slugify", "ShortSlugify", "Alternating",
     "Leetify", "Csv", "NoCommand"}

\* the mutant of from_str: the name to_string gives NoCommand is taken too
from_str_lenient(s) ==
      CASE s = <<"l", "o", "w", "e", "r", "c", "a", "s", "e">> -> Ok("Lowercase")
        [] s = <<"u", "p", "p", "e", "r", "c", "a", "s", "e">> -> Ok("Uppercase")
        [] s = <<"n", "o", "-", "s", "p", "a", "c", "e", "s">> -> Ok("NoSpaces")
        [] s = <<"s", "l", "u", "g", "i", "f", "y">> -> Ok("Slugify")
        [] s = <<"s", "h", "o", "r", "t", "-", "s", "l", "u", "g", "i", "f", "y">> -> Ok("ShortSlugify")
        [] s = <<"a", "l", "t", "e", "r", "n", "a", "t", "i", "n", "g">> -> Ok("Alternating")
        [] s = <<"l", "e", "e", "t", "i", "f", "y">> -> Ok("Leetify")
        [] s = <<"c", "s", "v">> -> Ok("Csv")
        [] s = <<"n", "o", " ", "c", "o", "m", "m", "a", "n", "d">> -> Ok("NoCommand")
        [] OTHER -> Err("()")

\* Command::from_str
from_str(s) ==
      CASE s = <<"l", "o", "w", "e", "r", "c", "a", "s", "e">> -> Ok("Lowercase")
        [] s = <<"u", "p", "p", "e", "r", "c", "a", "s", "e">> -> Ok("Uppercase")
        [] s = <<"n", "o", "-", "s", "p", "a", "c", "e", "s">> -> Ok("NoSpaces")
        [] s = <<"s", "l", "u", "g", "i", "f", "y">> -> Ok("Slugify")
        [] s = <<"s", "h", "o", "r", "t", "-", "s", "l", "u", "g", "i", "f", "y">> -> Ok("ShortSlugify")
        [] s = <<"a", "l", "t", "e", "r", "n", "a", "t", "i", "n", "g">> -> Ok("Alternating")
        [] s = <<"l", "e", "e", "t", "i", "f", "y">> -> Ok("Leetify")
        [] s = <<"c", "s", "v">> -> Ok("Csv")
        [] OTHER -> Err("()")

\* Command::to_string
to_string(c) ==
      CASE c = "Lowercase" -> <<"l", "o", "w", "e", "r", "c", "a", "s", "e">>
        [] c = "Uppercase" -> <<"u", "p", "p", "e", "r", "c", "a", "s", "e">>
        [] c = "NoSpaces" -> <<"n", "o", "-", "s", "p", "a", "c", "e", "s">>
        [] c = "Slugify" -> <<"s", "l", "u", "g", "i", "f", "y">>
        [] c = "ShortSlugify" -> <<"s", "h", "o", "r", "t", "-", "s", "l", "u", "g", "i", "f", "y">>
        [] c = "Alternating" -> <<"a", "l", "t", "e", "r", "n", "a", "t", "i", "n", "g">>
        [] c = "Leetify" -> <<"l", "e", "e", "t", "i", "f", "y">>
        [] c = "Csv" -> <<"c", "s", "v">>
        [] c = "NoCommand" -> <<"n", "o", " ", "c", "o", "m", "m", "a", "n", "d">>

\* parse_command: args.get(1) is the second element
parse_command(args) ==
    IF Len(args) >= 2
      THEN IF from_str(args[2]).ok THEN from_str(args[2]) ELSE Err("Invalid command.")
    ELSE Err("No command provided.")

Whitespace == {" ", "\n", "\t"}

\* the places of s that hold no whitespace
Inked(s) == {i \in DOMAIN s : s[i] \notin Whitespace}

\* str::trim_start: s from its first character that is no whitespace
trim_start(s) ==
    LET inked == Inked(s)
    IN IF inked = {} THEN <<>>
       ELSE Drop(s, (CHOOSE i \in inked : \A j \in inked : i <= j) - 1)

\* str::trim_end: s up to its last character that is no whitespace
trim_end(s) ==
    LET inked == Inked(s)
    IN IF inked = {} THEN <<>>
       ELSE Take(s, CHOOSE i \in inked : \A j \in inked : i >= j)

\* str::trim
trim(s) == trim_end(trim_start(s))

RECURSIVE SplitWords(_, _)
\* the words of s, cur being the word under way
SplitWords(s, cur) ==
    IF s = <<>> THEN (IF cur = <<>> THEN <<>> ELSE <<cur>>)
    ELSE IF Head(s) \in Whitespace
      THEN (IF cur = <<>> THEN <<>> ELSE <<cur>>) \o SplitWords(Tail(s), <<>>)
    ELSE SplitWords(Tail(s), Append(cur, Head(s)))

\* str::split_whitespace, collected
split_whitespace(s) == SplitWords(s, <<>>)

\* BufRead::read_line: the characters up to and including the next newline, or
\* to the end of the reader
read_line(reader) ==
    LET newlines == {i \in DOMAIN reader : reader[i] = "\n"}
        n == IF newlines = {} THEN Len(reader)
             ELSE CHOOSE i \in newlines : \A j \in newlines : i <= j
    IN [line |-> Take(reader, n), rest |-> Drop(reader, n)]

RECURSIVE read_input_loop(_, _, _)
\* the loop of read_input over the process's standard input
read_input_loop(in, mode, input) ==
    LET l == read_line(in)
        trimmed == trim(l.line)
    IN IF trimmed = <<>> THEN [input |-> input, stdin |-> l.rest]
       ELSE IF mode = "SingleLine"
         THEN [input |-> input \o trimmed \o <<"\n">>, stdin |-> l.rest]
       ELSE read_input_loop(l.rest, mode, input \o trimmed \o <<"\n">>)

\* read_input(_input_source, mode, ..) with the standard input as it finds it:
\* what it returns, and what is left of the two readers
read_input(reader, in, mode) ==
    LET r == read_input_loop(in, mode, <<>>)
    IN [ret |-> IF r.input = <<>> THEN Err(<<"N", "o", " ", "i", "n", "p", "u", "t", " ", "p", "r", "o", "v", "i", "d", "e", "d", ".">>)
                ELSE Ok(Take(r.input, Len(r.input) - 1)),
        stdin |-> r.stdin,
        input_source |-> reader]

\* get_command(_input_source, mode, args)
get_command(reader, in, mode, args) ==
    IF mode = "Interactive"
      THEN LET r == read_input(in, in, "SingleLine")
               command_input ==
                 IF r.ret.ok THEN r.ret.v
                 ELSE <<"E", "r", "r", "o", "r", " ", "r", "e", "a", "d", "i", "n", "g", " ", "t", "h", "e", " ", "c", "o", "m", "m", "a", "n", "d", " ", "f", "r", "o", "m", " ", "t", "h", "e", " ", "c", "o", "n", "s", "o", "l", "e", ":", " ">>
                        \o r.ret.v
               command_args == <<<<>>>> \o split_whitespace(trim(command_input))
           IN [ret |-> parse_command(command_args), stdin |-> r.stdin, input_source |-> reader]
    ELSE [ret |-> IF parse_command(args).ok THEN parse_command(args) ELSE Ok("NoCommand"),
          stdin |-> in, input_source |-> reader]

MAX_SHORT_SLUG == 16
MIN_SHORT_SLUG == 5

\* char::to_lowercase, over the characters of the model
Lower(ch) == CASE ch = "A" -> "a" [] ch = "C" -> "c" [] OTHER -> ch

IsAlnum(ch) == ch \in {"a", "c", "A", "C", "1"}

RECURSIVE SlugChars(_, _, _)
\* the loop of slug::slugify: letters and digits in lower case, every run of
\* other characters one dash, none at the start
SlugChars(s, slug, prev_is_dash) ==
    IF s = <<>> THEN slug
    ELSE IF IsAlnum(Head(s)) THEN SlugChars(Tail(s), Append(slug, Lower(Head(s))), FALSE)
    ELSE IF prev_is_dash THEN SlugChars(Tail(s), slug, TRUE)
    ELSE SlugChars(Tail(s), Append(slug, "-"), TRUE)

\* slug::slugify: the dash at the end is dropped
slugify(s) ==
    LET slug == SlugChars(s, <<>>, TRUE)
    IN IF slug # <<>> /\ slug[Len(slug)] = "-" THEN Take(slug, Len(slug) - 1) ELSE slug

RECURSIVE PopToDash(_)
\* the while loop of short_slugify: pop until the string ends with a dash or is
\* empty
PopToDash(s) ==
    IF s # <<>> /\ s[Len(s)] # "-" THEN PopToDash(Take(s, Len(s) - 1)) ELSE s

RECURSIVE trim_end_matches_dash(_)
\* trim_end_matches('-')
trim_end_matches_dash(s) ==
    IF s # <<>> /\ s[Len(s)] = "-" THEN trim_end_matches_dash(Take(s, Len(s) - 1)) ELSE s

\* short_slugify
short_slugify(string) ==
    LET slug == slugify(string)
        short_slug == IF Len(slug) > MAX_SHORT_SLUG THEN Take(slug, MAX_SHORT_SLUG) ELSE slug
        trimmed_short_slug == trim_end_matches_dash(PopToDash(short_slug))
    IN IF Len(trimmed_short_slug) < MIN_SHORT_SLUG THEN Ok(short_slug)
       ELSE Ok(trimmed_short_slug)

(***************************************************************************)
(* The calls of the hw-07 specification and their arguments.               *)
(***************************************************************************)
\* the words in the number of a text
MaxWords == 3

\* what a reader may hold
Streams ==
    { <<>>, <<"l", "o", "w", "e", "r", "c", "a", "s", "e", "\n">>, <<" ", " ", "c", "s", "v", " ", "\n">>,
      <<"u", "p", "p", "e", "r", "c", "a", "s", "e", "\n", "s", "l", "u", "g", "i", "f", "y", "\n">>,
      <<"\n", "l", "o", "w", "e", "r", "c", "a", "s", "e", "\n">>, <<"l", "e", "e", "t", "i", "f", "y">> }

\* what may stand at args[1]: the command names and words that are none
Words ==
    {to_string(c) : c \in Commands}
      \cup {<<>>, <<"u", "l", "t", "r", "a", "c", "a", "s", "e">>, <<"L", "o", "w", "e", "r", "c", "a", "s", "e">>, <<"c", "s", "v", ";">>}

ProgName == <<"p", "r", "o", "g", "_", "n", "a", "m", "e">>

\* the argument vectors: none, the program name alone, a word behind it, and
\* a second word behind that
ArgLists ==
    {<<>>, <<ProgName>>} \cup {<<ProgName, w>> : w \in Words}
      \cup {<<ProgName, w, <<"u", "l", "t", "r", "a", "c", "a", "s", "e">>>> : w \in Words}

\* a word of n characters
Word(n) == [i \in 1..n |-> IF i = 1 THEN "C" ELSE "a"]

RECURSIVE Sentence(_, _)
\* the words of the given lengths with sep between them
Sentence(lens, sep) ==
    IF Len(lens) = 1 THEN Word(lens[1])
    ELSE Word(lens[1]) \o sep \o Sentence(Tail(lens), sep)

WordLens == {1, 4, 5, 6, 10, 16, 17}

\* the texts handed to short_slugify
Texts ==
    {Sentence(lens, sep) \o end :
       lens \in UNION {[1..n -> WordLens] : n \in 1..MaxWords},
       sep \in {<<" ">>, <<",", " ">>, <<"-">>},
       end \in {<<>>, <<".">>}}

\* the state before a call of hw-07: the two readers as the caller set them up
InitCli ==
    /\ ServerInit
    /\ call = NoCall /\ ret = NoRet
    /\ stdin \in Streams
    /\ input_source \in Streams
    /\ NoThreads

ServerUnchanged == UNCHANGED <<server, shutdown_sent, main_pc, now, socket, task, fs, dirs>>

run_parse_command ==
    /\ call = NoCall
    /\ \E args \in ArgLists :
         /\ call' = [NoCall EXCEPT !.fn = "parse_command", !.args = args]
         /\ ret' = parse_command(args)
    /\ UNCHANGED <<stdin, input_source>>
    /\ ServerUnchanged /\ UNCHANGED threadVars

run_read_input ==
    /\ call = NoCall
    /\ \E mode \in {"SingleLine", "MultiLine"} :
         LET r == read_input(input_source, stdin, mode)
         IN /\ call' = [NoCall EXCEPT !.fn = "read_input", !.mode = mode,
                                      !.source = input_source]
            /\ ret' = r.ret
            /\ stdin' = r.stdin
            /\ input_source' = r.input_source
    /\ ServerUnchanged /\ UNCHANGED threadVars

run_get_command ==
    /\ call = NoCall
    /\ \E mode \in {"Interactive", "OneShot"} : \E args \in ArgLists :
         LET r == get_command(input_source, stdin, mode, args)
         IN /\ call' = [NoCall EXCEPT !.fn = "get_command", !.mode = mode, !.args = args,
                                      !.source = input_source]
            /\ ret' = r.ret
            /\ stdin' = r.stdin
            /\ input_source' = r.input_source
    /\ ServerUnchanged /\ UNCHANGED threadVars

run_short_slugify ==
    /\ call = NoCall
    /\ \E string \in Texts :
         /\ call' = [NoCall EXCEPT !.fn = "short_slugify", !.text = string]
         /\ ret' = short_slugify(string)
    /\ UNCHANGED <<stdin, input_source>>
    /\ ServerUnchanged /\ UNCHANGED threadVars

NextCli ==
    \/ run_parse_command
    \/ run_read_input
    \/ run_get_command
    \/ run_short_slugify

SpecCli == InitCli /\ [][NextCli]_vars

(***************************************************************************)
(* hw-07, main.rs: main starts a producer thread, which reads commands and *)
(* their input and sends them on the data channel, and a consumer thread,  *)
(* which executes them and answers each on the sync channel.  get_command, *)
(* parse_command and read_input of main.rs are the functions of input.rs   *)
(* with the standard input as their reader.                                *)
(***************************************************************************)
DEFAULT_DELIMITER == <<";">>

\* SubCommand::None and SubCommand::CsvSettings { path, delimiter, max_width }
SubCommandNone == [settings |-> FALSE, path |-> None, delimiter |-> None, max_width |-> None]
CsvSettings(path, delimiter, max_width) ==
    [settings |-> TRUE, path |-> path, delimiter |-> delimiter, max_width |-> max_width]

\* Delimiter::from_str(..).ok(), the delimiter written as it displays
delimiter_from_str(s) ==
    IF s \in {<<",">>, <<"c", "o", "m", "m", "a">>} THEN Some(<<",">>)
    ELSE IF s \in {<<";">>, <<"s", "e", "m", "i", "c", "o", "l", "o", "n">>} THEN Some(<<";">>)
    ELSE None

\* str::parse::<i32>().ok() on the short numerals of the model, the number
\* written in digits
parse_i32(s) ==
    LET digits == IF s # <<>> /\ Head(s) \in {"+", "-"} THEN Tail(s) ELSE s
    IN IF digits # <<>> /\ \A i \in DOMAIN digits : digits[i] \in {"0", "1", "2", "3", "4", "5", "6", "7", "8", "9"}
         THEN Some(IF Head(s) = "-" THEN s ELSE digits)
       ELSE None

RECURSIVE csv_settings_loop(_, _)
\* the loop of parse_csv_settings over the parts
csv_settings_loop(input, acc) ==
    IF input = <<>> THEN acc
    ELSE LET part == trim(Head(input))
             rest == Drop(part, 2)
         IN csv_settings_loop(Tail(input),
              IF IsPrefix(<<"d", ":">>, part) THEN [acc EXCEPT !.delimiter = delimiter_from_str(rest)]
              ELSE IF IsPrefix(<<"w", ":">>, part) THEN [acc EXCEPT !.max_width = parse_i32(rest)]
              ELSE IF IsPrefix(<<"p", ":">>, part) THEN [acc EXCEPT !.path = Some(rest)]
              ELSE acc)

parse_csv_settings(input) ==
    LET s == csv_settings_loop(input, CsvSettings(None, None, None))
    IN IF ~s.path.some /\ ~s.delimiter.some /\ ~s.max_width.some
         THEN Err("No valid settings provided.")
       ELSE Ok(s)

\* get_csv_subcommand(mode, args) on the standard input as it finds it
get_csv_subcommand(in, mode, argv) ==
    IF mode = "Interactive"
      THEN LET r == read_input(in, in, "SingleLine")
           IN [ret |-> IF r.ret.ok
                         THEN parse_csv_settings(<<<<>>>> \o split_whitespace(trim(r.ret.v)))
                       ELSE Ok(CsvSettings(None, Some(DEFAULT_DELIMITER), None)),
               stdin |-> r.stdin]
    ELSE [ret |-> IF parse_csv_settings(argv).ok THEN parse_csv_settings(argv)
                  ELSE Ok(CsvSettings(None, Some(DEFAULT_DELIMITER), None)),
          stdin |-> in]

\* main: one argument is the program alone
execution_mode(argv) == IF Len(argv) = 1 THEN "Interactive" ELSE "OneShot"

\* what travels on the data channel
Item(command, subcommand, input) ==
    [command |-> command, subcommand |-> subcommand, input |-> input]

\* the mutant of the consumer's end: a panic of the consumer leaves its ends
\* of the channels open
ConsumerReturned == consumer.pc = "exited"

\* the consumer thread has ended, and rx and done_tx with it
ConsumerEnded == consumer.pc \in {"exited", "panicked"}

Line(s) == s \o <<"\n">>

\* what the operator types, or what is piped in
Consoles ==
    { <<>>,
      Line(<<"x">>),
      Line(to_string("Lowercase")) \o Line(<<"a", " ", "b">>) \o Line(<<>>)
        \o Line(to_string("Uppercase")) \o Line(<<"c">>) \o Line(<<>>),
      Line(to_string("Slugify")) \o Line(<<>>),
      Line(to_string("Csv")) \o Line(<<"p", ":", "x", " ", "w", ":", "8">>)
        \o Line(to_string("Leetify")) \o Line(<<"a">>),
      Line(to_string("Csv")) \o Line(<<>>) \o Line(<<"a">>),
      Line(to_string("Csv")) \o Line(<<"d", ":", "x">>) \o Line(<<"a", ";", "b">>) \o Line(<<>>) }

\* the argument vectors of the runs
ThreadArgs ==
    { <<ProgName>>, <<ProgName, to_string("Lowercase")>>, <<ProgName, <<"x">>>>,
      <<ProgName, to_string("Csv")>>, <<ProgName, to_string("Csv"), <<"d", ":", ",">>>> }

\* the producer thread at the given place, holding the given command
At(pc, command) == [pc |-> pc, command |-> command]
Exited == At("exited", "none")

\* main has made the channels and started the two threads
InitThreads ==
    /\ ServerInit
    /\ call = NoCall /\ ret = NoRet /\ input_source = <<>>
    /\ stdin \in Consoles
    /\ env_args \in ThreadArgs
    /\ producer = At("loop", "none")
    /\ consumer = [pc |-> "recv"]
    /\ data_channel = <<>> /\ done_channel = <<>>
    /\ entered = <<>> /\ executed = <<>>
    /\ cli_main = "join_producer"
    /\ hw03 = [pc |-> "none", counter |-> 0, input |-> <<>>]
    /\ sending = [pc |-> "none"]

ThreadsFrame == ServerUnchanged /\ UNCHANGED <<call, ret, input_source, env_args, hw03, sending>>

\* tx.send(..): an error when the receiver is gone, which ends the producer
send(item) ==
    IF ConsumerEnded
      THEN producer' = Exited /\ UNCHANGED <<data_channel, entered>>
    ELSE /\ data_channel' = Append(data_channel, item)
         /\ entered' = Append(entered, item)
         /\ producer' = At("wait_done", "none")

\* run_producer at the top of its loop: get_command, and the break when it fails
run_producer_get_command ==
    /\ producer.pc = "loop"
    /\ LET g == get_command(stdin, stdin, execution_mode(env_args), env_args)
       IN /\ stdin' = g.stdin
          /\ producer' = IF ~g.ret.ok THEN Exited
                         ELSE IF g.ret.v = "Csv" THEN At("get_csv_subcommand", g.ret.v)
                         ELSE At("read_input", g.ret.v)
    /\ UNCHANGED <<consumer, data_channel, done_channel, entered, executed, cli_main>>
    /\ ThreadsFrame

\* run_producer with a Csv command: get_csv_subcommand, and the send when
\* there are settings
run_producer_get_csv_subcommand ==
    /\ producer.pc = "get_csv_subcommand"
    /\ LET r == get_csv_subcommand(stdin, execution_mode(env_args), env_args)
       IN /\ stdin' = r.stdin
          /\ IF r.ret.ok
               THEN send(Item(producer.command, r.ret.v, <<>>))
             ELSE /\ producer' = At("read_input", producer.command)
                  /\ UNCHANGED <<data_channel, entered>>
    /\ UNCHANGED <<consumer, done_channel, executed, cli_main>>
    /\ ThreadsFrame

\* run_producer with no subcommand: read_input in multi-line mode and the send,
\* or the break when nothing was entered
run_producer_read_input ==
    /\ producer.pc = "read_input"
    /\ LET r == read_input(stdin, stdin, "MultiLine")
       IN /\ stdin' = r.stdin
          /\ IF r.ret.ok
               THEN send(Item(producer.command, SubCommandNone, r.ret.v))
             ELSE producer' = Exited /\ UNCHANGED <<data_channel, entered>>
    /\ UNCHANGED <<consumer, done_channel, executed, cli_main>>
    /\ ThreadsFrame

\* the mutant of the loop condition: ran_once is not looked at
after_done_loops == At("loop", "none")

\* where the producer goes once the signal is there: round the loop again, or
\* out of it when the one command of a one-shot run is done
after_done == IF execution_mode(env_args) = "Interactive" THEN At("loop", "none") ELSE Exited

\* the mutant of the wait: the producer looks for the signal and goes on
\* without it
producer_try_recv_done ==
    /\ producer.pc = "wait_done"
    /\ done_channel' = IF done_channel # <<>> THEN Tail(done_channel) ELSE done_channel
    /\ producer' = after_done
    /\ UNCHANGED <<stdin, consumer, data_channel, entered, executed, cli_main>>
    /\ ThreadsFrame

\* done_rx.recv(): the producer waits for the consumer's signal; the wait
\* fails when the consumer has ended without sending one
producer_recv_done ==
    /\ producer.pc = "wait_done"
    /\ IF done_channel # <<>>
         THEN /\ done_channel' = Tail(done_channel)
              /\ producer' = after_done
       ELSE /\ ConsumerEnded
            /\ producer' = Exited
            /\ UNCHANGED done_channel
    /\ UNCHANGED <<stdin, consumer, data_channel, entered, executed, cli_main>>
    /\ ThreadsFrame

\* rx.recv(): the next command, or the end of the loop once the channel is
\* empty and the producer has dropped tx
consumer_recv ==
    /\ consumer.pc = "recv"
    /\ IF data_channel # <<>>
         THEN /\ consumer' = [pc |-> "execute", item |-> Head(data_channel)]
              /\ data_channel' = Tail(data_channel)
       ELSE /\ producer.pc = "exited"
            /\ consumer' = [pc |-> "exited"]
            /\ UNCHANGED data_channel
    /\ UNCHANGED <<stdin, producer, done_channel, entered, executed, cli_main>>
    /\ ThreadsFrame

\* execute_command(..) and done_tx.send(()).unwrap()
consumer_execute ==
    /\ consumer.pc = "execute"
    /\ executed' = Append(executed, consumer.item)
    /\ IF producer.pc = "exited"
         THEN consumer' = [pc |-> "panicked"] /\ UNCHANGED done_channel
       ELSE /\ consumer' = [pc |-> "recv"]
            /\ done_channel' = Append(done_channel, "()")
    /\ UNCHANGED <<stdin, producer, data_channel, entered, cli_main>>
    /\ ThreadsFrame

\* execute_command panics: the expect of csv_string_from_file on a path that
\* cannot be opened, or println! on a standard output that is closed
consumer_panic ==
    /\ consumer.pc = "execute"
    /\ consumer' = [pc |-> "panicked"]
    /\ UNCHANGED <<stdin, producer, data_channel, done_channel, entered, executed, cli_main>>
    /\ ThreadsFrame

\* producer.join().unwrap()
join_producer ==
    /\ cli_main = "join_producer" /\ producer.pc = "exited"
    /\ cli_main' = "join_consumer"
    /\ UNCHANGED <<stdin, producer, consumer, data_channel, done_channel, entered, executed>>
    /\ ThreadsFrame

\* consumer.join().unwrap()
join_consumer ==
    /\ cli_main = "join_consumer" /\ ConsumerEnded
    /\ cli_main' = IF consumer.pc = "exited" THEN "returned" ELSE "panicked"
    /\ UNCHANGED <<stdin, producer, consumer, data_channel, done_channel, entered, executed>>
    /\ ThreadsFrame

NextThreads ==
    \/ run_producer_get_command
    \/ run_producer_get_csv_subcommand
    \/ run_producer_read_input
    \/ producer_recv_done
    \/ consumer_recv
    \/ consumer_execute
    \/ consumer_panic
    \/ join_producer
    \/ join_consumer

SpecThreads == InitThreads /\ [][NextThreads]_vars

\* the threads under the operating system's scheduler: a thread that can come
\* out of a receive or a join does so, and execute_command returns or panics.
\* Nothing is assumed of the producer's reads of the standard input, which
\* wait on the operator.
SpecThreadsFair ==
    /\ InitThreads /\ [][NextThreads]_vars
    /\ WF_vars(producer_recv_done)
    /\ WF_vars(consumer_recv)
    /\ WF_vars(consumer_execute \/ consumer_panic)
    /\ WF_vars(join_producer)
    /\ WF_vars(join_consumer)

(***************************************************************************)
(* hw-03, main.rs: read_input, which reads lines of the standard input     *)
(* into one buffer until the buffer, trimmed, is not empty.                *)
(***************************************************************************)
MaxLines == 6

\* a byte sequence that is no UTF-8, on which read_line fails
InvalidUtf8 == "invalid"

\* the lines of the standard input: empty, blank, text, text that ends the
\* input without a newline, and a line that is no UTF-8
Lines03 ==
    { <<"\n">>, <<" ", "\t", "\n">>, <<" ", "a", " ", "b", " ", "\n">>, <<"c">>,
      <<InvalidUtf8, "\n">> }

Inputs03 == UNION {[1..n -> Lines03] : n \in 0..MaxLines}

\* main has called read_input
InitRetry ==
    /\ ServerInit
    /\ call = NoCall /\ ret = NoRet /\ input_source = <<>>
    /\ \E lines \in Inputs03 : stdin = Concat(lines)
    /\ env_args = <<>>
    /\ producer = [pc |-> "none"]
    /\ consumer = [pc |-> "none"]
    /\ data_channel = <<>> /\ done_channel = <<>>
    /\ entered = <<>> /\ executed = <<>>
    /\ cli_main = "none"
    /\ hw03 = [pc |-> "loop", counter |-> 0, input |-> <<>>]
    /\ sending = [pc |-> "none"]

\* the mutant of the loop condition: one attempt more
keep_trying_inclusive(counter) == counter <= 5

\* while counter < 5
keep_trying(counter) == counter < 5

\* one round of the loop of read_input: read_line appends the line to the
\* buffer (or fails on a line that is no UTF-8 and leaves the buffer as it
\* was), the buffer is trimmed, and the function returns the trimmed text, or
\* counts the attempt and returns the error when the loop is over
hw03_read_input ==
    /\ hw03.pc = "loop" /\ keep_trying(hw03.counter)
    /\ LET l == read_line(stdin)
           read_ok == \A i \in DOMAIN l.line : l.line[i] # InvalidUtf8
           input == IF read_ok THEN hw03.input \o l.line ELSE hw03.input
           trimmed == trim(input)
       IN /\ stdin' = l.rest
          /\ IF read_ok /\ trimmed # <<>>
               THEN /\ hw03' = [pc |-> "returned", counter |-> hw03.counter, input |-> input]
                    /\ ret' = Ok(trimmed)
             ELSE IF keep_trying(hw03.counter + 1)
               THEN /\ hw03' = [pc |-> "loop", counter |-> hw03.counter + 1, input |-> input]
                    /\ UNCHANGED ret
             ELSE /\ hw03' = [pc |-> "returned", counter |-> hw03.counter + 1, input |-> input]
                  /\ ret' = Err(<<"T", "o", "o", " ", "m", "a", "n", "y", " ", "f", "a", "i", "l", "e", "d", " ", "a", "t", "t", "e", "m", "p", "t", "s", " ", "t", "o", " ", "r", "e", "a", "d", " ", "i", "n", "p", "u", "t", ".">>)
    /\ UNCHANGED <<call, input_source, env_args, producer, consumer, data_channel,
                   done_channel, entered, executed, cli_main, sending>>
    /\ ServerUnchanged

NextRetry == hw03_read_input

SpecRetry == InitRetry /\ [][NextRetry]_vars

(***************************************************************************)
(* hw-09 client, send_message on messages of any size.  A usize is written *)
(* as three 16-bit limbs, the most significant first, so that lengths of   *)
(* 2^32 and more can be told from their low 32 bits; a message is known by *)
(* its variant, its name and the number of its payload bytes, all zero.    *)
(***************************************************************************)
\* a + b on usize
usize_add(a, b) ==
    LET l == a[3] + b[3]
        m == a[2] + b[2] + (l \div 65536)
        h == a[1] + b[1] + (m \div 65536)
    IN <<h % 65536, m % 65536, l % 65536>>

\* a small number as a usize
usize_of(n) == <<0, n \div 65536, n % 65536>>

\* n as u32: the low 32 bits
as_u32(n) == <<n[2], n[3]>>

\* u32::to_be_bytes
u32_to_be_bytes(w) == <<w[1] \div 256, w[1] % 256, w[2] \div 256, w[2] % 256>>

\* the length of a CBOR head with argument n
cbor_head_len(n) ==
    IF n[1] > 0 THEN 9
    ELSE IF n[2] > 0 THEN 5
    ELSE IF n[3] >= 256 THEN 3
    ELSE IF n[3] >= 24 THEN 2
    ELSE 1

\* serde_cbor::to_vec(&message).len() for a message with size payload bytes,
\* all zero (for a Text: a text of size characters): the map of one entry,
\* the variant's name, and for a File or an Image the array of the name and
\* of the bytes, one head each
to_vec_len(m) ==
    IF m.tag = "Text"
      THEN usize_add(usize_of(1 + 5 + cbor_head_len(m.size)), m.size)
    ELSE usize_add(
           usize_of(1 + (IF m.tag = "File" THEN 5 ELSE 6) + 1
                      + cbor_head_len(usize_of(Len(m.name))) + Len(m.name)
                      + cbor_head_len(m.size)),
           m.size)

\* the sizes of the payloads: on both sides of each form of the head and of
\* 2^32
Sizes ==
    { <<0, 0, 0>>, <<0, 0, 23>>, <<0, 0, 24>>, <<0, 0, 255>>, <<0, 0, 256>>,
      <<0, 0, 65535>>, <<0, 1, 0>>, <<0, 65535, 65500>>, <<0, 65535, 65535>>,
      <<1, 0, 0>>, <<1, 0, 5>>, <<2, 0, 0>> }

SizedMsgs ==
    {[tag |-> t, name |-> NameA, size |-> n] : t \in {"File", "Image", "Text"}, n \in Sizes}

Sending(pc, message, len, len_bytes, count) ==
    [pc |-> pc, message |-> message, len |-> len, len_bytes |-> len_bytes,
     written |-> count]

\* get_input has made a message and calls send_message
InitSend ==
    /\ ServerInit
    /\ call = NoCall /\ ret = NoRet /\ stdin = <<>> /\ input_source = <<>>
    /\ env_args = <<>>
    /\ producer = [pc |-> "none"]
    /\ consumer = [pc |-> "none"]
    /\ data_channel = <<>> /\ done_channel = <<>>
    /\ entered = <<>> /\ executed = <<>>
    /\ cli_main = "none"
    /\ hw03 = [pc |-> "none", counter |-> 0, input |-> <<>>]
    /\ \E m \in SizedMsgs : sending = Sending("to_vec", m, <<0, 0, 0>>, <<>>, <<0, 0, 0>>)

SendFrame ==
    /\ ServerUnchanged
    /\ UNCHANGED <<call, ret, stdin, input_source, env_args, producer, consumer,
                   data_channel, done_channel, entered, executed, cli_main, hw03>>

\* serde_cbor::to_vec, the cast of the length and to_be_bytes
send_message_to_vec ==
    /\ sending.pc = "to_vec"
    /\ sending' = [sending EXCEPT !.pc = "write_len",
                                !.len = to_vec_len(sending.message)]
    /\ SendFrame

\* stream.write_all(&len_bytes).await?
send_message_write_len ==
    /\ sending.pc = "write_len"
    /\ \/ sending' = [sending EXCEPT !.pc = "write_payload",
                                   !.len_bytes = u32_to_be_bytes(as_u32(sending.len))]
       \/ sending' = [sending EXCEPT !.pc = "Err"]
    /\ SendFrame

\* stream.write_all(&serialized_message).await?, and Ok(())
send_message_write_payload ==
    /\ sending.pc = "write_payload"
    /\ \/ sending' = [sending EXCEPT !.pc = "Ok", !.written = sending.len]
       \/ sending' = [sending EXCEPT !.pc = "Err"]
    /\ SendFrame

NextSend ==
    \/ send_message_to_vec
    \/ send_message_write_len
    \/ send_message_write_payload

SpecSend == InitSend /\ [][NextSend]_vars

(***************************************************************************)
(* Properties.                                                             *)
(***************************************************************************)
\* the handler of connection c takes a step
Acts(c) == task'[c] # task[c]

\* the step in which the handler of c ends with the given result
EndsWith(c, result) == task[c].pc # "done" /\ task'[c].pc = "done" /\ task'[c].result = result

\* the handler of c never came to a message or a put
NothingDecoded(c) ==
    /\ task[c].message = NoMessage
    /\ task[c].file_path = <<>>
    /\ task[c].started = 0

\* the step leaves the disk as it is
DiskUnchanged == fs' = fs /\ dirs' = dirs

\* the step leaves the listener, main and every handler but c's as they are
OthersUnchanged(c) ==
    /\ server' = server
    /\ main_pc' = main_pc
    /\ shutdown_sent' = shutdown_sent
    /\ \A d \in Conns \ {c} : task'[d] = task[d] /\ socket'[d] = socket[d]

\* C1: a frame is rejected exactly when its declared length is above 10 MiB
\* (10 MiB itself is accepted); a rejecting handler has taken the 4 prefix
\* bytes and nothing more, has allocated no buffer, decoded nothing and
\* touched no file, and the rejecting step leaves the disk as it is.
C1_FrameRejection ==
    /\ [](\A c \in Conns :
            /\ task[c].len >= 0 =>
                 (task[c].result = "TooLarge" <=> task[c].len > 10 * 1024 * 1024)
            /\ task[c].result = "TooLarge" =>
                 /\ task[c].pc = "done"
                 /\ task[c].nread = 4
                 /\ task[c].alloc = -1
                 /\ task[c].buffer = <<>>
                 /\ NothingDecoded(c))
    /\ [][\A c \in Conns : EndsWith(c, "TooLarge") => DiskUnchanged]_vars

\* C1 witness: one handler has rejected an oversized frame whose payload bytes
\* lie unread in the socket, another has accepted a frame of exactly 10 MiB
C1_Witness ==
    \E c, d \in Conns :
        /\ task[c].result = "TooLarge" /\ socket[c].rx # <<>>
        /\ task[d].len = 10 * 1024 * 1024 /\ task[d].pc = "read_payload"
        /\ task[d].alloc = task[d].len

\* a handler past its reads whose buffer holds a well-formed Message
WellFormedRead(c) ==
    /\ task[c].pc \notin {"idle", "read_len", "read_payload"}
    /\ task[c].result \notin {"LenReadError", "TooLarge", "ReadError"}
    /\ from_slice(task[c].buffer).ok

\* the handler of c came to process_message with the Message its buffer holds
Dispatched(c) ==
    /\ task[c].message = from_slice(task[c].buffer).msg
    /\ task[c].message # NoMessage
    /\ task[c].result # "DeserializationError"
    /\ task[c].started > 0 \/ task[c].result = "Text"

\* C2: the step in which a handler ends on a payload that does not decode
\* leaves the listener, main and every other connection as they are (the
\* listener stays Accepting), and every connection whose frame is well-formed
\* is decoded and dispatched, whatever the other connections delivered.
C2_Resilience ==
    /\ [][\A c \in Conns : EndsWith(c, "DeserializationError") => OthersUnchanged(c)]_vars
    /\ [](\A d \in Conns : WellFormedRead(d) => Dispatched(d))
    /\ []((\E c \in Conns : task[c].result = "DeserializationError")
            /\ server = "accepting" /\ Alive
            => \A d \in Conns : task[d].pc = "idle" /\ (\A e \in Conns : e < d => task[e].pc # "idle")
                 => \A script \in Scripts : ENABLED accept(d, script))

\* C2 witness: a connection failed to decode, the listener is still accepting,
\* and a later connection has been served to the end
C2_Witness ==
    \E c, d \in Conns :
        /\ c < d
        /\ task[c].result = "DeserializationError"
        /\ task[d].result = "Saved" /\ Dispatched(d)
        /\ server = "accepting"

\* C3: a handler never reads past its first frame, its Message once decoded
\* is never replaced, and a handler that has ended takes no further step and
\* reads no further byte, whatever lies unread in its socket.
C3_OneFramePerConnection ==
    /\ [](\A c \in Conns : task[c].len >= 0 => task[c].nread <= 4 + task[c].len)
    /\ [][\A c \in Conns :
            /\ task[c].message # NoMessage =>
                 task'[c].message = task[c].message /\ task'[c].nread = task[c].nread
            /\ task[c].pc = "done" => task'[c] = task[c] /\ socket'[c] = socket[c]]_vars

\* C3 witness: a handler has stored its one file and ended while a second
\* well-formed frame lies unread in its socket
C3_Witness ==
    \E c \in Conns :
        /\ task[c].pc = "done" /\ task[c].result = "Saved"
        /\ Len(socket[c].rx) > 4
        /\ from_slice(Drop(socket[c].rx, 4)).ok

\* C4: a handler whose payload does not decode ends without a Message and
\* without entering a put, and its last step leaves files and directories
\* exactly as they were.
C4_DecodeFailurePersistsNothing ==
    /\ [](\A c \in Conns :
            task[c].result = "DeserializationError" =>
              task[c].pc = "done" /\ NothingDecoded(c) /\ ~from_slice(task[c].buffer).ok)
    /\ [][\A c \in Conns :
            /\ EndsWith(c, "DeserializationError") => DiskUnchanged
            /\ task[c].result = "DeserializationError" => task'[c] = task[c]]_vars

\* C4 witness: a decode failure on a full, non-empty payload while the stores
\* hold a file
C4_Witness ==
    \E c \in Conns :
        /\ task[c].result = "DeserializationError"
        /\ task[c].buffer # <<>> /\ task[c].nread = 4 + task[c].len
        /\ fs # {}

\* C5: a handler whose stream ended before the 4 length bytes, or before the
\* declared payload bytes, had arrived ends on the read error, with no Message
\* and without entering a put; the failing step leaves the disk, the listener,
\* main and the other connections as they are.
C5_TruncatedFrame ==
    /\ [](\A c \in Conns :
            /\ task[c].pc = "done" /\ task[c].nread < 4 => task[c].result = "LenReadError"
            /\ (task[c].pc = "done" /\ ~len_too_large(task[c].len)
                  /\ task[c].nread >= 4 /\ task[c].nread < 4 + task[c].len)
                 => task[c].result = "ReadError"
            /\ task[c].result \in {"LenReadError", "ReadError"} =>
                 task[c].pc = "done" /\ NothingDecoded(c))
    /\ [][\A c \in Conns :
            EndsWith(c, "LenReadError") \/ EndsWith(c, "ReadError")
              => DiskUnchanged /\ OthersUnchanged(c)]_vars

\* C5 witness: one connection closed inside the length prefix, another closed
\* with part of its payload delivered, and the listener is still accepting
C5_Witness ==
    \E c, d \in Conns :
        /\ task[c].result = "LenReadError" /\ task[c].nread < 4
        /\ task[d].result = "ReadError" /\ task[d].buffer # <<>>
        /\ server = "accepting" /\ Alive

\* the step in which the put of c fails on its storage and the task panics
StorageFails(c) ==
    /\ task[c].pc \in {"create_dir", "metadata", "write"}
    /\ EndsWith(c, "Panicked")

\* C6: a storage failure inside a File put ends that handler alone: the step
\* leaves the listener, main and every other handler as they are, and while the
\* process runs a handler in the middle of its own put can still take each of
\* its steps.
C6_StorageFailureIsLocal ==
    /\ [][\A c \in Conns : StorageFails(c) => OthersUnchanged(c)]_vars
    /\ []((\E c \in Conns : task[c].result = "Panicked") /\ Alive
            => \A d \in Conns :
                 /\ task[d].pc = "create_dir" => ENABLED save_file_create_dir(d)
                 /\ task[d].pc = "metadata" => ENABLED save_file_metadata(d)
                 /\ task[d].pc = "write" => ENABLED save_file_write(d))

\* C6 witness: one put has failed on its storage, another handler has stored
\* its file after that, and the process and its listener are still running
C6_Witness ==
    \E c, d \in Conns :
        /\ task[c].result = "Panicked"
        /\ task[d].result = "Saved" /\ task[d].started > task[c].ended
        /\ server = "accepting" /\ Alive

\* what lies outside a store directory: the other files and directories
Outside(f, ds, dir) == <<f \ Store(f, dir), ds \ {dir}>>

\* C7: a step of a handler with a Text changes no file and no directory, a step
\* of a handler with a File changes nothing outside the file store, a step of a
\* handler with an Image nothing outside the image store.
C7_DispatchFrameCondition ==
    [][\A c \in Conns :
         Acts(c) =>
           /\ task'[c].message.tag = "Text" => DiskUnchanged
           /\ task'[c].message.tag = "File" =>
                Outside(fs', dirs', FilesDir) = Outside(fs, dirs, FilesDir)
           /\ task'[c].message.tag = "Image" =>
                Outside(fs', dirs', ImagesDir) = Outside(fs, dirs, ImagesDir)]_vars

\* the candidate path of a File put: files/name
Candidate(c) == FILE_STORE \o task[c].message.name

\* C8: a File put that finds nothing at files/name writes to exactly that
\* path, and the step that completes a File put leaves at the put's path a file
\* whose content is the payload, byte for byte (the empty payload included),
\* changing no other file.
C8_FileIntegrity ==
    [][\A c \in Conns :
         /\ (task[c].pc = "metadata" /\ Acts(c)
               /\ Resolve(Candidate(c), dirs) \notin Paths(fs) \cup dirs)
              => task'[c].pc = "write" /\ task'[c].file_path = Candidate(c)
         /\ (task[c].pc = "write" /\ EndsWith(c, "Saved"))
              => LET rp == Resolve(task[c].file_path, dirs)
                 IN /\ rp \in Paths(fs')
                    /\ Content(fs', rp) = task[c].message.data
                    /\ Len(Content(fs', rp)) = Len(task[c].message.data)
                    /\ \A q \in Paths(fs) \ {rp} :
                         q \in Paths(fs') /\ Content(fs', q) = Content(fs, q)]_vars

\* C8 witness: an empty payload stored at files/a.t, the candidate itself
C8_Witness ==
    \E c \in Conns :
        /\ task[c].result = "Saved"
        /\ task[c].message = File(NameA, <<>>)
        /\ task[c].file_path = FILE_STORE \o NameA
        /\ [path |-> Resolve(FILE_STORE \o NameA, dirs), content |-> <<>>] \in fs

\* c and d are two completed File puts of one name, d begun in a later second
\* than c ended, and no other handler has taken either path
TwoSequentialPuts(c, d) ==
    /\ c # d
    /\ task[c].result = "Saved" /\ task[d].result = "Saved"
    /\ task[c].message.name = task[d].message.name
    /\ task[d].started > task[c].ended
    /\ \A e \in Conns \ {c, d} :
         task[e].file_path # <<>> =>
           Resolve(task[e].file_path, dirs)
             \notin {Resolve(task[c].file_path, dirs), Resolve(task[d].file_path, dirs)}

\* C9: two sequential File puts of one name, the second begun in a later clock
\* second than the first ended, leave two distinct files: the first holds the
\* first payload, the second, whose name carries the timestamp, the second.
C9_CollisionHandling ==
    \A c, d \in Conns :
        TwoSequentialPuts(c, d) =>
          LET p1 == Resolve(task[c].file_path, dirs)
              p2 == Resolve(task[d].file_path, dirs)
          IN /\ p1 # p2
             /\ p1 \in Paths(fs) /\ Content(fs, p1) = task[c].message.data
             /\ p2 \in Paths(fs) /\ Content(fs, p2) = task[d].message.data
             /\ \E t \in task[d].started..now :
                  task[d].file_path = make_path_unique(Candidate(d), t)

\* C9 witness: two such puts with different payloads
C9_Witness ==
    \E c, d \in Conns :
        /\ TwoSequentialPuts(c, d)
        /\ task[c].message.data # task[d].message.data

\* C10: no step changes or removes the content of a file that is on disk.
C10_NeverMutated ==
    [][\A rp \in Paths(fs) : rp \in Paths(fs') /\ Content(fs', rp) = Content(fs, rp)]_vars

\* C11: every path a completed File put wrote lies inside files/, and every
\* path a completed Image put wrote lies inside images/, whatever the name the
\* client sent.
C11_WrittenInsideStore ==
    \A c \in Conns :
        /\ task[c].result = "Saved" =>
             InStore(Resolve(task[c].file_path, dirs), FilesDir)
        /\ task[c].result = "ImageSaved" =>
             InStore(Resolve(task[c].file_path, dirs), ImagesDir)

\* the file at rp is the same before and after the step
SameAt(rp) ==
    \/ rp \notin Paths(fs) /\ rp \notin Paths(fs')
    \/ rp \in Paths(fs) /\ rp \in Paths(fs') /\ Content(fs', rp) = Content(fs, rp)

\* C12: the step that ends a File put, with success or with a failed write,
\* leaves at the put's path either the complete payload or what was there before
\* the put: never a strict prefix of the payload.
C12_AtomicWrite ==
    [][\A c \in Conns :
         (task[c].pc = "write" /\ task'[c].pc = "done")
           => LET rp == Resolve(task[c].file_path, dirs)
              IN \/ rp \in Paths(fs') /\ Content(fs', rp) = task[c].message.data
                 \/ SameAt(rp)]_vars

\* C13: when the closure of an Image put returns an error, whether the bytes
\* did not decode or the PNG could not be written, its run has created or
\* changed no file of the image store.
C13_ImageFailureWritesNothing ==
    [][\A c \in Conns :
         (task[c].worker = "blocking" /\ task'[c].worker = "ImageError")
           => Store(fs', ImagesDir) = Store(fs, ImagesDir)]_vars

\* the image work of handler c is in progress: its closure has been started
\* and has not returned
ImageWorkInProgress(c) ==
    task[c].pc = "img_join" /\ task[c].worker \notin {"ImageSaved", "ImageError"}

\* the lowest connection not yet accepted
NextConn(d) == task[d].pc = "idle" /\ \A e \in Conns : e < d => task[e].pc # "idle"

\* C14: while the image work of one handler is in progress (and the process
\* runs), the listener can accept the next connection and every other handler
\* whose length bytes have arrived, or whose stream has ended, can take its
\* read, and a scheduler thread is free for every other step (the payload read
\* among them); the handler of the image stays suspended, without a result,
\* until the closure has returned, and the result it ends with is the closure's.
C14_BlockingWorker ==
    /\ (\E c \in Conns : ImageWorkInProgress(c)) /\ Alive
         => /\ \A d \in Conns :
                 /\ (task[d].pc = "read_len" /\ (Len(socket[d].rx) >= 4 \/ socket[d].eof))
                      => ENABLED handle_client_read_len(d)
                 /\ (server = "accepting" /\ NextConn(d))
                      => \A script \in Scripts : ENABLED accept(d, script)
            /\ server = "binding" => ENABLED bind
            /\ Polled
    /\ \A c \in Conns :
         /\ ImageWorkInProgress(c) => task[c].result = "none"
         /\ (task[c].message.tag = "Image" /\ task[c].worker # "none" /\ task[c].pc = "done")
              => task[c].worker \in {"ImageSaved", "ImageError"}
                   /\ task[c].result = task[c].worker

\* C14 witness: the closure of one handler is running on the blocking pool
\* while another handler has its whole frame waiting to be read
C14_Witness ==
    \E c, d \in Conns :
        /\ ImageWorkInProgress(c) /\ task[c].worker = "blocking"
        /\ task[d].pc = "read_payload" /\ Len(socket[d].rx) >= task[d].len
        /\ task[d].len > 0
        /\ server = "accepting" /\ Alive

\* C15: once the listener has left Accepting it never accepts again: it leaves
\* for Stopped only on the shutdown signal, stays Stopped, and while it is not
\* Accepting no connection is accepted and no handler is spawned.
C15_ListenerStops ==
    [][/\ (server # "stopped" /\ server' = "stopped") => shutdown_sent
       /\ server = "stopped" => server' = "stopped"
       /\ server \notin {"binding", "accepting"} => server' # "accepting"
       /\ server # "accepting" =>
            \A c \in Conns : task[c].pc = "idle" =>
               task'[c].pc = "idle" /\ socket'[c] = socket[c]]_vars

\* C15 witness: the listener has stopped on the signal after accepting one
\* connection, with a connection still to come
C15_Witness ==
    /\ server = "stopped" /\ shutdown_sent /\ Alive
    /\ \E c, d \in Conns : task[c].pc \notin {"idle", "done"} /\ task[d].pc = "idle"

\* C16: after the shutdown signal was sent, a handler in flight is still run:
\* its read of a prefix that has arrived and each step of its File put can be
\* taken.
C16_HandlersSurviveShutdown ==
    shutdown_sent =>
      \A c \in Conns :
          /\ (task[c].pc = "read_len" /\ Len(socket[c].rx) >= 4)
               => ENABLED handle_client_read_len(c)
          /\ task[c].pc = "create_dir" => ENABLED save_file_create_dir(c)
          /\ task[c].pc = "metadata" => ENABLED save_file_metadata(c)
          /\ task[c].pc = "write" => ENABLED save_file_write(c)

\* C17: a frame written by send_message is read as one frame and decodes to
\* the Message sent: the length read is the length of the encoding, the payload
\* read is the encoding, byte for byte, and the Message handed to
\* process_message equals the one encoded; no such frame is refused or fails
\* to decode.
C17_WireRoundTrip ==
    /\ [](\A c \in Conns :
            /\ task[c].result \notin {"TooLarge", "DeserializationError"}
            /\ task[c].message # NoMessage =>
                 /\ task[c].message \in WireMsgs
                 /\ task[c].buffer = to_vec(task[c].message)
                 /\ task[c].len = Len(task[c].buffer)
                 /\ task[c].nread = 4 + task[c].len)
    /\ [][\A c \in Conns : \A m \in WireMsgs :
            LET frame == send_message(m)
            IN /\ (task[c].pc = "read_len" /\ Acts(c)
                     /\ socket[c].rx \in {frame[1], frame[1] \o frame[2]})
                    => /\ task'[c].pc = "read_payload"
                       /\ task'[c].len = Len(to_vec(m))
                       /\ socket'[c].rx = Drop(socket[c].rx, 4)
               /\ (task[c].pc = "read_payload" /\ Acts(c)
                     /\ task[c].len = Len(to_vec(m)) /\ socket[c].rx = to_vec(m))
                    => /\ task'[c].message = m
                       /\ task'[c].buffer = to_vec(m)
                       /\ socket'[c].rx = <<>>]_vars

\* C17 witness: an empty text and a file with an empty payload have both come
\* through, and so has a text whose encoding needs a two-byte length
C17_Witness ==
    \E c, d \in Conns :
        /\ task[c].message = Text(<<>>) /\ task[c].result = "Text"
        /\ task[d].message \in {File(NameA, <<>>), Text([i \in 1..300 |-> Ascii("t")])}
        /\ task[d].nread = 4 + Len(to_vec(task[d].message))

\* the commands that have a name on the command line
Named == Commands \ {"NoCommand"}

\* C18: parse_command returns Ok(c) exactly when args[1] is the name of the
\* command c, Err("Invalid command.") for every other args[1] and
\* Err("No command provided.") when there is no args[1]; it never returns
\* NoCommand.
C18_ParseCommand ==
    call.fn = "parse_command" =>
      LET args == call.args
      IN /\ ret # Ok("NoCommand")
         /\ Len(args) < 2 => ret = Err("No command provided.")
         /\ Len(args) >= 2 =>
              /\ \A c \in Named : ret = Ok(c) <=> args[2] = to_string(c)
              /\ (\A c \in Named : args[2] # to_string(c)) => ret = Err("Invalid command.")

\* C18 witness: short-slugify parsed with an argument behind it, and the name
\* of NoCommand refused
C18_Witness ==
    /\ call.fn = "parse_command"
    /\ \/ /\ Len(call.args) = 3 /\ call.args[2] = to_string("ShortSlugify")
          /\ ret = Ok("ShortSlugify")
       \/ /\ Len(call.args) = 2 /\ call.args[2] = to_string("NoCommand")
          /\ ret = Err("Invalid command.")
    /\ call.args # <<>> /\ call.args[1] = ProgName

\* the first line of a reader, trimmed
FirstLine(reader) == trim(read_line(reader).line)

\* C19: in single-line mode read_input returns the first line of the reader
\* it was given, trimmed and without the newline, and get_command in
\* interactive mode returns the command that line names, whatever the
\* process's standard input holds.
C19_ReadsItsInputSource ==
    /\ (call.fn = "read_input" /\ call.mode = "SingleLine" /\ FirstLine(call.source) # <<>>)
         => ret = Ok(FirstLine(call.source))
    /\ (call.fn = "get_command" /\ call.mode = "Interactive"
          /\ \E c \in Named : FirstLine(call.source) = to_string(c))
         => \E c \in Named : FirstLine(call.source) = to_string(c) /\ ret = Ok(c)

\* the positions of the dashes in a slug
Dashes(slug) == {i \in DOMAIN slug : slug[i] = "-"}

\* a slug cut before its last dash
CutAtLastDash(slug) ==
    Take(slug, (CHOOSE i \in Dashes(slug) : \A j \in Dashes(slug) : j <= i) - 1)

\* C20: short_slugify returns at most 16 characters; a slug of at most 16
\* characters is returned whole; a longer one is cut before the last dash of
\* its first 16 characters, unless fewer than 5 characters would be left (or
\* there is no dash), and then its first 16 characters are returned.
C20_ShortSlug ==
    call.fn = "short_slugify" =>
      LET slug == slugify(call.text)
          prefix == Take(slug, 16)
      IN /\ ret.ok /\ Len(ret.v) <= 16
         /\ Len(slug) <= 16 => ret.v = slug
         /\ Len(slug) > 16 =>
              ret.v = IF Dashes(prefix) = {} \/ Len(CutAtLastDash(prefix)) < 5 THEN prefix
                      ELSE CutAtLastDash(prefix)

\* d is about to write the candidate path that c, a put of the same name, has
\* already written
RacingPuts(c, d) ==
    /\ c # d
    /\ task[c].message.tag = "File" /\ task[d].message.tag = "File"
    /\ task[c].message.name = task[d].message.name
    /\ task[c].result = "Saved" /\ task[d].pc = "write"
    /\ task[c].file_path = Candidate(c) /\ task[d].file_path = Candidate(d)

\* C21: nothing is locked between the existence check and the write: a put
\* whose check finds no file at the candidate goes on to write the candidate
\* even while another put of that name is about to write it, and when the
\* second of two such puts writes, the store is left with the second payload
\* alone at that path, with no error for either put.
C21_DocumentedRace ==
    [][\A c, d \in Conns :
         /\ (c # d /\ task[d].pc = "metadata" /\ Acts(d)
               /\ task[c].pc = "write" /\ task[c].file_path = task[d].file_path
               /\ ~metadata_is_ok(task[d].file_path, fs, dirs))
              => task'[d].pc = "write" /\ task'[d].file_path = task[d].file_path
         /\ (RacingPuts(c, d) /\ EndsWith(d, "Saved"))
              => LET rp == Resolve(task[d].file_path, dirs)
                 IN /\ Paths(fs') = Paths(fs)
                    /\ Content(fs', rp) = task[d].message.data
                    /\ task'[c] = task[c]]_vars

\* C21 witness: two puts of a.t with different payloads have both ended in
\* success at files/a.t, and the store holds one file
C21_Witness ==
    \E c, d \in Conns :
        /\ c # d
        /\ task[c].result = "Saved" /\ task[d].result = "Saved"
        /\ task[c].file_path = FILE_STORE \o NameA /\ task[d].file_path = FILE_STORE \o NameA
        /\ task[c].message.data # task[d].message.data
        /\ Cardinality(fs) = 1

\* C24: an Image put that succeeds has written images/<name>_<seconds>.png,
\* the seconds being the clock reading of the closure, whether or not a file was
\* there; two Image puts of one name that read the same second have one path.
C24_ImagePath ==
    /\ [](\A c, d \in Conns :
            (task[c].worker = "ImageSaved" /\ task[d].worker = "ImageSaved"
               /\ task[c].message.name = task[d].message.name
               /\ task[c].ended = task[d].ended)
              => task[c].file_path = task[d].file_path)
    /\ [][\A c \in Conns :
            (task[c].worker = "blocking" /\ task'[c].worker = "ImageSaved")
              => LET path == Str(<<"i","m","a","g","e","s","/">>) \o task[c].message.name
                               \o <<Ascii("_")>> \o Digits(now) \o Str(<<".","p","n","g">>)
                 IN /\ task'[c].file_path = path
                    /\ Resolve(path, dirs) \in Paths(fs')
                    /\ Content(fs', Resolve(path, dirs))
                         = png_encode(load_from_memory(task[c].message.data).v)]_vars

\* C24 witness: two Image puts of one name in one second have both succeeded,
\* and the image store holds a single file
C24_Witness ==
    \E c, d \in Conns :
        /\ c # d
        /\ task[c].result = "ImageSaved" /\ task[d].result = "ImageSaved"
        /\ task[c].file_path = task[d].file_path
        /\ Cardinality(Store(fs, ImagesDir)) = 1

\* C25: nothing waits for the handlers: main can return as soon as the signal
\* was sent or the server task has ended, and the listener can take the signal,
\* whatever the handlers are doing.
C25_FireAndForget ==
    /\ (Alive /\ (shutdown_sent \/ ServerDone)) => ENABLED main_return
    /\ (Alive /\ shutdown_sent /\ server \in {"accepting", "waiting"}) => ENABLED recv_shutdown

\* C25 witness: main has returned after the signal while one handler is about to
\* write its file and another is in the middle of its frame
C25_Witness ==
    /\ main_pc = "exited" /\ shutdown_sent
    /\ \E c, d \in Conns :
         /\ task[c].pc = "write"
         /\ task[d].pc = "read_payload" /\ task[d].nread = 4

\* C26: a handler waiting for payload bytes that have not arrived, on a stream
\* that has not ended, takes no step, however far the clock moves; once the
\* bytes are there or the stream has ended its read can be taken.
C26_NoReadDeadline ==
    /\ [][\A c \in Conns :
            (task[c].pc = "read_payload" /\ Len(socket[c].rx) < task[c].len /\ ~socket[c].eof)
              => task'[c] = task[c]]_vars
    /\ [](\A c \in Conns :
            (Alive /\ task[c].pc = "read_payload" /\ Len(socket[c].rx) < task[c].len)
              => (ENABLED handle_client_read_payload(c) <=> socket[c].eof))

\* C26 witness: a handler has read a prefix within the limit, its client has
\* sent nothing more and has not closed, and the clock has moved on
C26_Witness ==
    \E c \in Conns :
        /\ task[c].pc = "read_payload" /\ task[c].len > 0 /\ ~len_too_large(task[c].len)
        /\ socket[c].rx = <<>> /\ socket[c].pending # <<>> /\ ~socket[c].eof
        /\ now = MaxClock /\ Alive

\* C27: the listener leaves Accepting only on the shutdown signal: an accept
\* that fails while no signal was sent leaves it accepting.
C27_AcceptingAcrossFailures ==
    [][(server = "accepting" /\ server' # "accepting") => shutdown_sent]_vars

\* C28: once the interrupt was delivered and the signal sent, main returns,
\* whatever the handlers are doing and whether or not the server task has taken
\* the signal.
C28_ShutdownReached == shutdown_sent ~> (main_pc = "exited")

\* C28 witness: main has returned after the signal while the listener has not
\* taken it and a handler waits for a payload that never came
C28_Witness ==
    /\ main_pc = "exited" /\ shutdown_sent /\ server = "accepting"
    /\ \E c \in Conns :
         /\ task[c].pc = "read_payload" /\ Len(socket[c].rx) < task[c].len
         /\ ~socket[c].eof /\ socket[c].pending = <<>>

\* C22: a File put that ends in success has written its candidate or the
\* name make_path_unique gave the candidate at one clock reading of the put,
\* never a name suffixed twice; a candidate that is there is replaced by that
\* alternate whether or not the alternate is there, and the write goes to the
\* path so chosen, replacing what it finds.
C22_SubstitutedOnce ==
    [][\A c \in Conns :
         /\ (task[c].pc = "metadata" /\ Acts(c)
               /\ metadata_is_ok(task[c].file_path, fs, dirs) /\ CanUnique(task[c].file_path))
              => /\ task[c].file_path = Candidate(c)
                 /\ task'[c].pc = "write"
                 /\ task'[c].file_path = make_path_unique(Candidate(c), now)
         /\ (task[c].pc = "write" /\ EndsWith(c, "Saved"))
              => /\ task[c].file_path
                      \in {Candidate(c)}
                            \cup {make_path_unique(Candidate(c), t) : t \in 1..MaxClock}
                 /\ task'[c].file_path = task[c].file_path
                 /\ Content(fs', Resolve(task[c].file_path, dirs)) = task[c].message.data]_vars

\* C22 witness: on a disk that held a.t and a_1.t (and the third file of that
\* disk), a put of a.t has ended in success at a_1.t, whose content is now the
\* payload
C22_Witness ==
    \E c \in Conns :
        /\ task[c].message.tag = "File" /\ task[c].message.name = NameA
        /\ task[c].result = "Saved"
        /\ task[c].file_path = FILE_STORE \o NameAlt
        /\ Left(NameA) \in fs /\ Left(NameNoExt) \in fs
        /\ Content(fs, FilesDir \o <<NameAlt>>) = task[c].message.data

\* the names of the store's clients by their parts: stem and the extension
\* with its dot
NameParts ==
    { [name |-> NameA, stem |-> Str(<<"a">>), ext |-> Str(<<".", "t">>)],
      [name |-> NameNoExt, stem |-> Str(<<"a">>), ext |-> <<>>],
      [name |-> NameEmpty, stem |-> <<>>, ext |-> <<>>],
      [name |-> NameAlt, stem |-> Str(<<"a", "_">>) \o Digits(1), ext |-> Str(<<".", "t">>)] }

\* C23: for every name, the path a put whose candidate is there goes on with
\* is files/<stem>_<t><.ext>, t being the clock reading: the directory part is
\* the candidate's, and the path differs from the candidate.
C23_MakePathUnique ==
    [][\A c \in Conns :
         (task[c].pc = "metadata" /\ Acts(c) /\ metadata_is_ok(task[c].file_path, fs, dirs))
           => \E p \in NameParts :
                /\ p.name = task[c].message.name
                /\ task'[c].pc = "write"
                /\ task'[c].file_path
                     = Str(<<"f","i","l","e","s","/">>) \o p.stem \o <<Ascii("_")>>
                         \o Digits(now) \o p.ext
                /\ task'[c].file_path # task[c].file_path]_vars

\* C29: two File puts of different names that both end in success have
\* written different files.
C29_DistinctNamesDistinctPaths ==
    \A c, d \in Conns :
        (/\ task[c].message.tag = "File" /\ task[d].message.tag = "File"
         /\ task[c].result = "Saved" /\ task[d].result = "Saved"
         /\ task[c].message.name # task[d].message.name)
          => Resolve(task[c].file_path, dirs) # Resolve(task[d].file_path, dirs)

C31_NoDeadlockOnExit ==
    /\ (producer.pc = "exited" /\ consumer.pc # "panicked") ~> (cli_main = "returned")
    /\ (producer.pc = "exited") ~> (cli_main \in {"returned", "panicked"})
    /\ (consumer.pc = "panicked") ~> (producer.pc = "exited")
    /\ [](cli_main \notin {"returned", "panicked"}
            => \/ producer.pc \in {"loop", "get_csv_subcommand", "read_input"}
               \/ ENABLED producer_recv_done
               \/ ENABLED consumer_recv
               \/ consumer.pc = "execute"
               \/ ENABLED join_producer
               \/ ENABLED join_consumer)

\* C31 witness: the consumer has died on a command, the producer, which was
\* waiting for its signal, has ended, and main has come out of its joins
C31_Witness ==
    /\ consumer.pc = "panicked" /\ producer.pc = "exited"
    /\ cli_main = "panicked"
    /\ Len(entered) = 2 /\ Len(executed) = 1

\* the step in which the producer leaves its loop
ProducerLeaves == producer.pc # "exited" /\ producer'.pc = "exited"

\* the producer leaves on a command error or an input error
OnError ==
    \/ /\ producer.pc = "loop"
       /\ ~get_command(stdin, stdin, execution_mode(env_args), env_args).ret.ok
    \/ /\ producer.pc = "read_input"
       /\ ~read_input(stdin, stdin, "MultiLine").ret.ok

\* in a one-shot run at most one command is sent and executed, and the
\* producer ends when its signal has come
OneShotOnce ==
    /\ [](execution_mode(env_args) = "OneShot" => Len(entered) <= 1 /\ Len(executed) <= 1)
    /\ [][(execution_mode(env_args) = "OneShot" /\ producer.pc = "wait_done"
             /\ producer' # producer)
            => producer'.pc = "exited"]_vars

\* C32 (as claimed): in a one-shot run the producer sends and the consumer
\* executes at most one command; in an interactive run the producer leaves its
\* loop only on a command error or an input error.
C32_UntilError ==
    /\ OneShotOnce
    /\ [][(execution_mode(env_args) = "Interactive" /\ ProducerLeaves) => OnError]_vars

\* C32 (amended): in a one-shot run the producer sends and the consumer
\* executes at most one command; in an interactive run the producer goes back
\* to reading a command after every signal, and leaves its loop only on a
\* command error, on an input error, or because the consumer has ended.
C32_UntilErrorOrConsumerEnd ==
    /\ OneShotOnce
    /\ [][execution_mode(env_args) = "Interactive"
            => /\ ProducerLeaves => (OnError \/ (producer.pc = "wait_done" /\ ConsumerEnded))
               /\ (producer.pc = "wait_done" /\ producer' # producer /\ ~ConsumerEnded)
                    => producer'.pc = "loop"]_vars

\* C32 witness: in an interactive run the consumer has died on the first
\* command, and the producer has left its loop with commands still unread
C32_Witness ==
    /\ execution_mode(env_args) = "Interactive"
    /\ consumer.pc = "panicked" /\ producer.pc = "exited"
    /\ Len(entered) = 1 /\ executed = <<>>
    /\ stdin # <<>>

\* the line the next attempt of read_input reads, and whether it yields
\* input that is not blank
NextLine == read_line(stdin).line
YieldsInput ==
    /\ \A i \in DOMAIN NextLine : NextLine[i] # InvalidUtf8
    /\ \E i \in DOMAIN NextLine : NextLine[i] \notin Whitespace

\* C33: read_input makes at most 5 attempts; an attempt whose line is not
\* blank returns Ok with that line trimmed; every other attempt is counted and
\* the fifth of them returns the error "Too many failed attempts to read
\* input."; read_input returns, in that every attempt returns or adds one to
\* a counter that stays below 5 while the loop runs.
C33_BoundedRetry ==
    /\ [](hw03.counter <= 5)
    /\ [](hw03.pc = "returned" =>
            IF ret.ok THEN hw03.counter < 5
            ELSE /\ hw03.counter = 5
                 /\ ret.v = <<"T", "o", "o", " ", "m", "a", "n", "y", " ", "f", "a", "i", "l", "e", "d", " ", "a", "t", "t", "e", "m", "p", "t", "s", " ", "t", "o", " ", "r", "e", "a", "d", " ", "i", "n", "p", "u", "t", ".">>)
    /\ [][hw03' # hw03 =>
            IF YieldsInput
              THEN /\ hw03'.pc = "returned" /\ hw03'.counter = hw03.counter
                   /\ ret' = Ok(trim(NextLine))
            ELSE /\ hw03'.counter = hw03.counter + 1
                 /\ hw03'.pc = IF hw03.counter = 4 THEN "returned" ELSE "loop"
                 /\ hw03.counter < 4 => ret' = ret]_vars
    /\ [](hw03.pc = "loop" => hw03.counter < 5)

\* C33 witness: read_input has returned the text of its fifth attempt, after
\* four attempts that were blank or failed
C33_Witness ==
    /\ hw03.pc = "returned" /\ hw03.counter = 4
    /\ ret = Ok(<<"a", " ", "b">>)

\* C34: when send_message has returned Ok, the four bytes of the prefix, read
\* as a big-endian number, are the number of payload bytes written after them.
C34_PrefixIsLength ==
    sending.pc = "Ok" =>
        <<0, sending.len_bytes[1] * 256 + sending.len_bytes[2],
             sending.len_bytes[3] * 256 + sending.len_bytes[4]>> = sending.written

====
